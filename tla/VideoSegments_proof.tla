------------------------ MODULE VideoSegments_proof ------------------------
(***************************************************************************)
(* Proofs about VideoSegments: no goroutine of a segment meets another one *)
(* at work, every Done is closed once, nobody's stop takes a segment from  *)
(* somebody who waits for it, and the queue for the slots is never stuck.  *)
(*                                                                         *)
(* What makes them inductive is the tie between the map and the goroutines *)
(* (OwnedInv): as long as no entry was removed under a goroutine, the one  *)
(* at work is the one whose number the entry carries, and the entry is     *)
(* queued, transcoding or finished - so a new one is not started.  Steps   *)
(* that leave the goroutines alone go through EntriesMove, steps of one    *)
(* goroutine through RunMoves, and steps that make nobody wait through     *)
(* AskedKeeps and WantedKeeps.                                             *)
(***************************************************************************)
EXTENDS VideoSegments, FiniteSetTheorems, WellFoundedInduction, TLAPS

USE DEF Segments, Gens, Jobs

Worked(k) == \E g \in Gens : Alive(<<k, g>>)

RequestType == [at : {"idle", "ensure", "blocked", "wait", "stop"}, segment : Segments,
             gen : 0 .. MaxRuns, priority : 1 .. Playback, left : BOOLEAN]

Typed ==
    /\ seg \in [Segments -> Entry \cup {NoEntry}]
    /\ run \in [Jobs -> [at : Phases, took : 0 .. MaxRuns]]
    /\ closed \in [Jobs -> 0 .. 2]
    /\ file \subseteq Segments
    /\ req \in [Callers -> RequestType]

Waits(c) == req[c].at = "wait"

\* Whose entry it is; an entry may have no goroutine only when it was made for
\* a file that is there (number 0); what the flags say; whom a request waits for.
OwnedInv == \A k \in Segments \ undercut, g \in Gens :
    Alive(<<k, g>>) => /\ Present(k) /\ seg[k].gen = g
                       /\ seg[k].queued \/ seg[k].transcoding \/ k \in file
BornInv == \A k \in Segments : Present(k) => seg[k].gen = 0 \/ run[<<k, seg[k].gen>>].at # "none"
BusyInv == \A k \in Segments : Running(k) => Worked(k)
CachedInv == \A k \in Segments : Present(k) /\ seg[k].gen = 0 /\ Worked(k) => k \in file
AskedInv == \A c \in Callers :
    Waits(c) => req[c].gen \in Gens /\ run[<<req[c].segment, req[c].gen>>].at # "none"
WantedInv == \A c \in Callers :
    LET k == req[c].segment IN
    Waits(c) /\ ~req[c].left /\ Present(k) /\ seg[k].gen = req[c].gen
        => c[1] \in seg[k].sessions /\ ~seg[k].doomed

IInv == Typed /\ OwnedInv /\ BornInv /\ BusyInv /\ CachedInv /\ AskedInv /\ WantedInv /\ DoneIsClosedOnce

LEMMA EntryGen == ASSUME NEW e \in Entry PROVE e.gen \in 0 .. MaxRuns
BY DEF Entry

LEMMA GenOf == ASSUME NEW g \in 0 .. MaxRuns, g # 0 PROVE g \in Gens
BY ConstantsAssumption

LEMMA NumberedIsSome == ASSUME NEW e, e.gen \in 0 .. MaxRuns PROVE e # NoEntry
<1>1. NoEntry.gen = -1 BY DEF NoEntry
<1>. QED BY <1>1, ConstantsAssumption

LEMMA EntryIsSome == ASSUME NEW e \in Entry PROVE e # NoEntry
BY EntryGen, NumberedIsSome

LEMMA EntryReset ==
    ASSUME NEW e \in Entry, NEW b \in BOOLEAN, NEW p \in 0 .. Playback, NEW w \in Sessions \cup {""}
    PROVE  [e EXCEPT !.queued = b, !.claiming = b, !.transcoding = b, !.cancel = b,
                     !.priority = p, !.owner = w] \in Entry
BY DEF Entry

LEMMA SegUpdate ==
    ASSUME Typed, NEW k \in Segments, NEW e \in Entry \cup {NoEntry}
    PROVE  [seg EXCEPT ![k] = e] \in [Segments -> Entry \cup {NoEntry}]
BY DEF Typed

LEMMA CallerParts ==
    ASSUME Typed, NEW c \in Callers
    PROVE  /\ req[c] \in RequestType /\ req[c].segment \in Segments /\ c[1] \in Sessions
           /\ req[c].priority \in 0 .. Playback
BY ConstantsAssumption DEF Typed, RequestType, Callers, Playback

LEMMA InitTyped == Init => Typed
BY ConstantsAssumption DEF Init, Typed, RequestType, Unasked, Balanced, Playback, Phases, NoEntry

LEMMA RequestMoved ==
    ASSUME NEW r \in RequestType, NEW a \in {"idle", "ensure", "blocked", "wait", "stop"}, NEW g \in 0 .. MaxRuns
    PROVE  [r EXCEPT !.at = a, !.gen = g] \in RequestType
BY DEF RequestType

LEMMA AfterWaitTyped ==
    ASSUME Typed, NEW c \in Callers
    PROVE  AfterWait(c) \in RequestType /\ AfterWait(c).at # "wait"
<1>0. req[c] \in RequestType /\ req[c].segment \in Segments BY CallerParts
<1>1. CASE c[2] = "player"
  <2>1. AfterWait(c) = Unasked BY <1>1 DEF AfterWait
  <2>2. Unasked \in RequestType /\ Unasked.at = "idle"
    BY ConstantsAssumption DEF RequestType, Unasked, Balanced, Playback
  <2>. QED BY <2>1, <2>2
<1>2. CASE c[2] # "player" /\ (req[c].segment = Count \/ req[c].left)
  <2>1. AfterWait(c) = [req[c] EXCEPT !.at = "stop", !.gen = 0] BY <1>2 DEF AfterWait
  <2>2. req[c].segment \in Segments /\ req[c].priority \in 1 .. Playback /\ req[c].left \in BOOLEAN
    BY <1>0 DEF RequestType
  <2>3. AfterWait(c) = [at |-> "stop", segment |-> req[c].segment, gen |-> 0,
                        priority |-> req[c].priority, left |-> req[c].left]
    BY <1>0, <2>1 DEF RequestType
  <2>. QED BY <2>2, <2>3, ConstantsAssumption DEF RequestType
<1>3. CASE c[2] # "player" /\ ~(req[c].segment = Count \/ req[c].left)
  <2>1. req[c].segment + 1 \in Segments BY <1>0, <1>3, ConstantsAssumption
  <2>2. AfterWait(c) = [req[c] EXCEPT !.at = "ensure", !.gen = 0, !.segment = req[c].segment + 1]
    BY <1>3 DEF AfterWait
  <2>3. req[c].priority \in 1 .. Playback /\ req[c].left \in BOOLEAN BY <1>0 DEF RequestType
  <2>4. AfterWait(c) = [at |-> "ensure", segment |-> req[c].segment + 1, gen |-> 0,
                        priority |-> req[c].priority, left |-> req[c].left]
    BY <1>0, <2>2 DEF RequestType
  <2>. QED BY <2>1, <2>3, <2>4, ConstantsAssumption DEF RequestType
<1>. QED BY <1>1, <1>2, <1>3

LEMMA FreshEntry ==
    ASSUME NEW g \in 0 .. MaxRuns, NEW s \in Sessions, NEW w \in {s, ""}, NEW q \in BOOLEAN,
           NEW p \in 0 .. Playback, NEW x \in BOOLEAN
    PROVE  [gen |-> g, sessions |-> {s}, owner |-> w, queued |-> q, claiming |-> FALSE,
            transcoding |-> FALSE, priority |-> p, doomed |-> FALSE, cancel |-> x] \in Entry
BY DEF Entry

LEMMA JoinsShape ==
    ASSUME Typed, NEW c \in Callers, EnsureJoins(c)
    PROVE  \E p \in 0 .. Playback, w \in Sessions \cup {""} :
               seg' = [seg EXCEPT ![req[c].segment] =
                   [seg[req[c].segment] EXCEPT !.sessions = Join(req[c].segment, c[1]), !.priority = p, !.owner = w]]
<1>. DEFINE k == req[c].segment
<1>0. k \in Segments /\ c[1] \in Sessions /\ req[c].priority \in 0 .. Playback BY CallerParts
<1>1. seg[k] \in Entry BY <1>0 DEF Typed, EnsureJoins, Running, Present
<1>2. seg[k].priority \in 0 .. Playback /\ seg[k].owner \in Sessions \cup {""} BY <1>1 DEF Entry
<1>3. CASE req[c].priority > seg[k].priority
  BY <1>0, <1>1, <1>2, <1>3, ZenonT(40) DEF Typed, EnsureJoins
<1>4. CASE ~(req[c].priority > seg[k].priority)
  BY <1>0, <1>1, <1>2, <1>4, ZenonT(40) DEF Typed, EnsureJoins
<1>. QED BY <1>3, <1>4

LEMMA EnsureTyped ==
    ASSUME Typed, NEW c \in Callers, Ensure(c)
    PROVE  Typed'
<1>. DEFINE k == req[c].segment
<1>0. k \in Segments /\ c[1] \in Sessions /\ req[c].priority \in 0 .. Playback /\ req[c] \in RequestType
  BY CallerParts
<1>1. CASE EnsureBlocked(c)
  <2>1. seg[k].gen \in 0 .. MaxRuns BY <1>0, <1>1, EntryGen DEF Typed, EnsureBlocked, Present
  <2>. QED BY <1>0, <1>1, <2>1 DEF Typed, Ensure, EnsureBlocked, Move, KeepsRuns, RequestType
<1>2. CASE EnsureCached(c)
  <2>0. seg' \in [Segments -> Entry \cup {NoEntry}] => Typed'
    BY <1>0, <1>2, AfterWaitTyped DEF Typed, Ensure, EnsureCached, KeepsRuns
  <2>1. CASE Present(k)
    <3>. DEFINE e == [seg[k] EXCEPT !.sessions = Join(k, c[1]), !.queued = FALSE, !.transcoding = FALSE]
    <3>1. seg[k] \in Entry BY <1>0, <2>1 DEF Typed, Present
    <3>2. e \in Entry BY <1>0, <3>1 DEF Entry, Join
    <3>3. seg' = [seg EXCEPT ![k] = e] BY <1>2, <2>1 DEF EnsureCached
    <3>4. seg' \in [Segments -> Entry \cup {NoEntry}] BY <1>0, <3>2, <3>3, SegUpdate
    <3>. QED BY <2>0, <3>4
  <2>2. CASE ~Present(k)
    <3>. DEFINE e == [gen |-> 0, sessions |-> {c[1]}, owner |-> "", queued |-> FALSE, claiming |-> FALSE,
                      transcoding |-> FALSE, priority |-> 0, doomed |-> FALSE, cancel |-> FALSE]
    <3>1. e \in Entry BY <1>0, ConstantsAssumption DEF Entry, Playback
    <3>2. seg' = [seg EXCEPT ![k] = e] BY <1>2, <2>2 DEF EnsureCached
    <3>3. seg' \in [Segments -> Entry \cup {NoEntry}] BY <1>0, <3>1, <3>2, SegUpdate
    <3>. QED BY <2>0, <3>3
  <2>. QED BY <2>1, <2>2
<1>3. CASE EnsureJoins(c)
  <2>1. seg[k] \in Entry BY <1>0, <1>3 DEF Typed, EnsureJoins, Running, Present
  <2>2. PICK p \in 0 .. Playback, w \in Sessions \cup {""} :
            seg' = [seg EXCEPT ![k] = [seg[k] EXCEPT !.sessions = Join(k, c[1]), !.priority = p, !.owner = w]]
    BY <1>3, JoinsShape
  <2>3. [seg[k] EXCEPT !.sessions = Join(k, c[1]), !.priority = p, !.owner = w] \in Entry
    BY <1>0, <2>1 DEF Entry, Join
  <2>4. seg[k].gen \in 0 .. MaxRuns BY <2>1, EntryGen
  <2>5. seg' \in [Segments -> Entry \cup {NoEntry}] BY <1>0, <2>2, <2>3, SegUpdate
  <2>6. req' \in [Callers -> RequestType] BY <1>0, <1>3, <2>4 DEF Typed, EnsureJoins, Move, RequestType
  <2>. QED BY <1>3, <2>5, <2>6 DEF Typed, Ensure, EnsureJoins, KeepsRuns
<1>4. ASSUME NEW g \in Gens, EnsureStarts(c, g) PROVE Typed'
  <2>. DEFINE e == [gen |-> g, sessions |-> {c[1]}, owner |-> c[1], queued |-> TRUE, claiming |-> FALSE,
           transcoding |-> FALSE, priority |-> req[c].priority, doomed |-> FALSE, cancel |-> TRUE]
  <2>0. g \in 0 .. MaxRuns BY ConstantsAssumption
  <2>1. e \in Entry BY <1>0, <2>0, FreshEntry
  <2>2. seg' \in [Segments -> Entry \cup {NoEntry}] BY <1>0, <1>4, <2>1, SegUpdate DEF EnsureStarts
  <2>3. run' \in [Jobs -> [at : Phases, took : 0 .. MaxRuns]] BY <1>0, <1>4 DEF EnsureStarts, Typed, Phases
  <2>4. req' \in [Callers -> RequestType] BY <1>0, <1>4, <2>0 DEF EnsureStarts, Typed, RequestType, Move
  <2>. QED BY <1>4, <2>2, <2>3, <2>4 DEF Typed, Ensure, EnsureStarts
<1>. QED BY <1>1, <1>2, <1>3, <1>4 DEF Ensure

LEMMA CallerTyped ==
    ASSUME Typed, NEW c \in Callers,
           \/ \E k \in Segments, p \in {Balanced, Playback} : Request(c, k, p)
           \/ WarmStarts(c) \/ Wakes(c) \/ BlockedTimesOut(c) \/ Abandons(c)
    PROVE  Typed'
<1>1. \E r \in RequestType : req' = [req EXCEPT ![c] = r]
  <2>1. ASSUME NEW k \in Segments, NEW p \in {Balanced, Playback}, Request(c, k, p)
        PROVE  \E r \in RequestType : req' = [req EXCEPT ![c] = r]
    <3>1. [at |-> "ensure", segment |-> k, gen |-> 0, priority |-> p, left |-> FALSE] \in RequestType
      BY ConstantsAssumption DEF RequestType, Balanced, Playback
    <3>. QED BY <2>1, <3>1 DEF Request
  <2>2. CASE WarmStarts(c)
    <3>1. [at |-> "ensure", segment |-> 1, gen |-> 0, priority |-> FullWarm, left |-> FALSE] \in RequestType
      BY ConstantsAssumption DEF RequestType, FullWarm, Playback
    <3>. QED BY <2>2, <3>1 DEF WarmStarts
  <2>3. CASE Wakes(c)
    <3>1. [req[c] EXCEPT !.at = "ensure", !.gen = 0] \in RequestType
      <4>1. \A a \in {"idle", "ensure", "blocked", "wait", "stop"}, g \in 0 .. MaxRuns :
                [req[c] EXCEPT !.at = a, !.gen = g] \in RequestType
        BY CallerParts, RequestMoved
      <4>2. 0 \in 0 .. MaxRuns BY ConstantsAssumption
      <4>. QED BY <4>1, <4>2
    <3>2. CASE req[c].at = "blocked" BY <2>3, <3>1, <3>2 DEF Wakes
    <3>3. CASE req[c].at # "blocked" BY <2>3, <3>3, AfterWaitTyped DEF Wakes
    <3>. QED BY <3>2, <3>3
  <2>4. CASE BlockedTimesOut(c) BY <2>4, AfterWaitTyped DEF BlockedTimesOut
  <2>5. CASE Abandons(c) BY <2>5, AfterWaitTyped DEF Abandons
  <2>. QED BY <2>1, <2>2, <2>3, <2>4, <2>5
<1>2. UNCHANGED <<seg, run, closed, file>>
  BY DEF Request, WarmStarts, Wakes, BlockedTimesOut, Abandons, ReqOnly
<1>. QED BY <1>1, <1>2 DEF Typed

LEMMA StopTyped ==
    ASSUME Typed, NEW s \in Sessions, StopSession(s)
    PROVE  seg' \in [Segments -> Entry \cup {NoEntry}]
<1>. DEFINE leaves == {k \in Segments : Present(k) /\ s \in seg[k].sessions}
            last == LastLeaving(s)
<1>1. PICK heir \in [leaves -> Sessions \cup {""}] :
          seg' = [k \in Segments |->
                    IF k \notin leaves THEN seg[k]
                    ELSE IF k \in last /\ ~Running(k) THEN NoEntry
                    ELSE [seg[k] EXCEPT !.sessions = @ \ {s}, !.owner = heir[k], !.doomed = @ \/ k \in last]]
  BY DEF StopSession
<1>2. ASSUME NEW k \in Segments, k \in leaves
      PROVE  [seg[k] EXCEPT !.sessions = @ \ {s}, !.owner = heir[k], !.doomed = @ \/ k \in last] \in Entry
  <2>1. seg[k] \in Entry BY <1>2 DEF Typed, Present
  <2>2. heir[k] \in Sessions \cup {""} BY <1>2
  <2>3. (seg[k].doomed \/ k \in last) \in BOOLEAN OBVIOUS
  <2>. QED BY <2>1, <2>2, <2>3 DEF Entry
<1>. QED BY <1>1, <1>2 DEF Typed

LEMMA LeftTyped ==
    ASSUME Typed, NEW S, req' = [c \in Callers |-> IF c \in S THEN [req[c] EXCEPT !.left = TRUE] ELSE req[c]]
    PROVE  req' \in [Callers -> RequestType]
<1>1. ASSUME NEW c \in Callers PROVE [req[c] EXCEPT !.left = TRUE] \in RequestType
  BY DEF Typed, RequestType
<1>. QED BY <1>1 DEF Typed

LEMMA SessionTyped ==
    ASSUME Typed, \/ \E s \in Sessions : SessionStop(s)
                  \/ \E c \in Callers : WarmEnds(c)
    PROVE  Typed'
<1>1. ASSUME NEW s \in Sessions, SessionStop(s) PROVE Typed'
  <2>. DEFINE S == {c \in Callers : c[1] = s /\ req[c].at # "idle"}
  <2>1. req' = [c \in Callers |-> IF c \in S THEN [req[c] EXCEPT !.left = TRUE] ELSE req[c]]
    BY <1>1 DEF SessionStop
  <2>2. req' \in [Callers -> RequestType]
    <3>. HIDE DEF S
    <3>. QED BY <2>1, LeftTyped
  <2>. QED BY <1>1, <2>2, StopTyped DEF SessionStop, Typed
<1>2. ASSUME NEW c \in Callers, WarmEnds(c) PROVE Typed'
  <2>1. ASSUME NEW d \in Callers PROVE [req[d] EXCEPT !.left = TRUE] \in RequestType
    BY <2>1 DEF Typed, RequestType
  <2>2. Unasked \in RequestType BY ConstantsAssumption DEF RequestType, Unasked, Balanced, Playback
  <2>3. req' \in [Callers -> RequestType] BY <1>2, <2>1, <2>2 DEF WarmEnds, Typed
  <2>. QED BY <1>2, <2>3, StopTyped, CallerParts DEF WarmEnds, Typed
<1>. QED BY <1>1, <1>2

LEMMA RunTyped ==
    ASSUME Typed, NEW j \in Jobs, RunStep(j)
    PROVE  Typed'
<1>. DEFINE k == j[1]
<1>1. k \in Segments /\ j[2] \in Gens OBVIOUS
<1>2. run' \in [Jobs -> [at : Phases, took : 0 .. MaxRuns]]
  <2>0. 0 \in 0 .. MaxRuns BY ConstantsAssumption
  <2>1. CASE \E p \in Phases : To(j, p) BY <2>0, <2>1 DEF To, Typed
  <2>2. CASE ClaimHead(j)
    <3>1. k \in Segments /\ Present(k) BY <2>2 DEF ClaimHead, QueueHead, Head1, Waiting, Queued
    <3>2. seg[k].gen \in 0 .. MaxRuns BY <3>1, EntryGen DEF Typed, Present
    <3>. QED BY <2>2, <3>2, ZenonT(40) DEF ClaimHead, Typed, Phases
  <2>. QED BY <2>1, <2>2 DEF RunStep, StartRun, GivesUp, TakesSlot, ClaimCancelled, TranscodeEnds, Finish, Phases
<1>3. seg' \in [Segments -> Entry \cup {NoEntry}]
  <2>1. CASE UNCHANGED seg BY <2>1 DEF Typed
  <2>2. CASE ClaimHead(j)
    <3>1. Present(k) BY <2>2 DEF ClaimHead, QueueHead, Head1, Waiting, Queued
    <3>2. seg[k] \in Entry BY <1>1, <3>1 DEF Typed, Present
    <3>3. [seg[k] EXCEPT !.claiming = TRUE] \in Entry BY <3>2 DEF Entry
    <3>. QED BY <1>1, <2>2, <3>3, SegUpdate DEF ClaimHead
  <2>3. CASE TakesSlot(j) /\ Present(k)
    <3>2. seg[k] \in Entry BY <1>1, <2>3 DEF Typed, Present
    <3>3. [seg[k] EXCEPT !.queued = FALSE, !.claiming = FALSE, !.transcoding = TRUE] \in Entry BY <3>2 DEF Entry
    <3>4. seg' = [seg EXCEPT ![k] = [seg[k] EXCEPT !.queued = FALSE, !.claiming = FALSE, !.transcoding = TRUE]]
      BY <2>3 DEF TakesSlot
    <3>. QED BY <1>1, <3>3, <3>4, SegUpdate, ZenonT(40)
  <2>4. CASE ClaimCancelled(j) /\ Present(k)
    <3>2. seg[k] \in Entry BY <1>1, <2>4 DEF Typed, Present
    <3>3. [seg[k] EXCEPT !.claiming = FALSE] \in Entry BY <3>2 DEF Entry
    <3>4. seg' \in {seg, [seg EXCEPT ![k] = [seg[k] EXCEPT !.claiming = FALSE]]}
      BY <2>4 DEF ClaimCancelled
    <3>. QED BY <1>1, <2>1, <3>3, <3>4, SegUpdate, ZenonT(40)
  <2>5. CASE Finish(j) /\ Present(k)
    <3>. DEFINE e == [seg[k] EXCEPT !.queued = FALSE, !.claiming = FALSE, !.transcoding = FALSE,
                                    !.cancel = FALSE, !.priority = 0, !.owner = ""]
    <3>2. seg[k] \in Entry BY <1>1, <2>5 DEF Typed, Present
    <3>3. e \in Entry
      <4>1. 0 \in 0 .. Playback BY DEF Playback
      <4>. QED BY <3>2, <4>1, EntryReset
    <3>4. seg' = [seg EXCEPT ![k] = NoEntry] \/ seg' = [seg EXCEPT ![k] = e]
      BY <2>5 DEF Finish
    <3>. QED BY <1>1, <3>3, <3>4, SegUpdate, ZenonT(40)
  <2>6. (TakesSlot(j) \/ ClaimCancelled(j) \/ Finish(j)) /\ ~Present(k) => UNCHANGED seg
    BY DEF TakesSlot, ClaimCancelled, Finish
  <2>7. StartRun(j) \/ GivesUp(j) \/ TranscodeEnds(j) => UNCHANGED seg
    BY DEF StartRun, GivesUp, TranscodeEnds
  <2>. QED BY <2>1, <2>2, <2>3, <2>4, <2>5, <2>6, <2>7 DEF RunStep
<1>4. closed' \in [Jobs -> 0 .. 2]
  <2>1. CASE Finish(j)
    <3>1. ASSUME NEW m \in Jobs PROVE (IF closed[m] = 2 THEN 2 ELSE closed[m] + 1) \in 0 .. 2
      <4>1. closed[m] \in 0 .. 2 BY <3>1 DEF Typed
      <4>. QED BY <4>1
    <3>. QED BY <2>1, <3>1 DEF Finish, Typed
  <2>2. CASE ~Finish(j)
    BY <2>2 DEF RunStep, StartRun, ClaimHead, GivesUp, TakesSlot, ClaimCancelled, TranscodeEnds, Typed
  <2>. QED BY <2>1, <2>2
<1>5. file' \subseteq Segments
  BY <1>1 DEF RunStep, StartRun, ClaimHead, GivesUp, TakesSlot, ClaimCancelled, TranscodeEnds, Finish, Typed
<1>6. UNCHANGED req
  BY DEF RunStep, StartRun, ClaimHead, GivesUp, TakesSlot, ClaimCancelled, TranscodeEnds, Finish, RunKeeps
<1>. QED BY <1>2, <1>3, <1>4, <1>5, <1>6 DEF Typed

LEMMA OthersTyped ==
    ASSUME Typed, SetPause \/ AssetDeleted \/ PurgeBegins \/ PurgeEnds \/ \E k \in Segments : Sweep(k)
    PROVE  Typed'
<1>. DEFINE S == {c \in Callers : c[2] = "warm" /\ req[c].at # "idle"}
<1>1. req' \in [Callers -> RequestType]
  <2>1. CASE SetPause \/ PurgeBegins
    <3>1. req' = req \/ req' = [c \in Callers |-> IF c \in S THEN [req[c] EXCEPT !.left = TRUE] ELSE req[c]]
      BY <2>1 DEF SetPause, PurgeBegins
    <3>. HIDE DEF S
    <3>. QED BY <3>1, LeftTyped DEF Typed
  <2>2. CASE ~(SetPause \/ PurgeBegins) BY <2>2 DEF AssetDeleted, PurgeEnds, Sweep, Typed
  <2>. QED BY <2>1, <2>2
<1>2. seg' \in [Segments -> Entry \cup {NoEntry}]
  BY DEF SetPause, AssetDeleted, PurgeBegins, PurgeEnds, Sweep, Typed
<1>3. file' \subseteq Segments /\ UNCHANGED <<run, closed>>
  BY DEF SetPause, AssetDeleted, PurgeBegins, PurgeEnds, Sweep, Typed, EnvKeeps
<1>. QED BY <1>1, <1>2, <1>3 DEF Typed

LEMMA NextTyped == Typed /\ [Next]_vars => Typed'
<1>1. Typed /\ UNCHANGED vars => Typed' BY DEF Typed, vars
<1>2. Typed /\ Next => Typed'
  BY EnsureTyped, CallerTyped, SessionTyped, RunTyped, OthersTyped DEF Next, CallerStep
<1>. QED BY <1>1, <1>2

-----------------------------------------------------------------------------
\* The part about entries and goroutines, and what a step may do to an entry:
\* drop it, keep its number, or make one for a file.
RunsInv == OwnedInv /\ BornInv /\ BusyInv /\ CachedInv /\ DoneIsClosedOnce

Busy(e) == e.queued \/ e.claiming \/ e.transcoding
InLine(e) == e.queued \/ e.transcoding

Dropped(k) == seg'[k] = NoEntry /\ (k \in undercut' \/ ~Worked(k))
Kept(k) ==
    /\ Present(k) /\ seg'[k] # NoEntry /\ seg'[k].gen = seg[k].gen
    /\ Busy(seg'[k]) => Busy(seg[k])
    /\ InLine(seg[k]) => InLine(seg'[k]) \/ k \in file'
Made(k) == ~Present(k) /\ seg'[k] # NoEntry /\ seg'[k].gen = 0 /\ ~Busy(seg'[k]) /\ k \in file'

LEMMA EntriesMove ==
    ASSUME RunsInv, UNCHANGED <<run, closed>>, undercut \subseteq undercut',
           \A k \in Segments : Dropped(k) \/ Kept(k) \/ Made(k),
           \A k \in file : k \in file' \/ ~Worked(k) \/ seg'[k] = NoEntry
    PROVE  RunsInv'
<1>0. \A j : Alive(j)' <=> Alive(j) BY DEF Alive
<1>00. \A k : Worked(k)' <=> Worked(k) BY <1>0 DEF Worked
<1>1. OwnedInv'
  <2>1. SUFFICES ASSUME NEW k \in Segments, k \notin undercut', NEW g \in Gens, Alive(<<k, g>>)
                 PROVE  seg'[k] # NoEntry /\ seg'[k].gen = g /\ (InLine(seg'[k]) \/ k \in file')
    BY <1>0 DEF OwnedInv, Present, InLine
  <2>2. Present(k) /\ seg[k].gen = g /\ (InLine(seg[k]) \/ k \in file)
    BY <2>1 DEF RunsInv, OwnedInv, InLine
  <2>3. Worked(k) BY <2>1 DEF Worked
  <2>. QED BY <2>1, <2>2, <2>3 DEF Dropped, Kept, Made
<1>2. BornInv'
  <2>1. SUFFICES ASSUME NEW k \in Segments, seg'[k] # NoEntry
                 PROVE  seg'[k].gen = 0 \/ run[<<k, seg'[k].gen>>].at # "none"
    BY DEF BornInv, Present
  <2>. QED BY <2>1 DEF RunsInv, BornInv, Dropped, Kept, Made
<1>3. BusyInv'
  <2>1. SUFFICES ASSUME NEW k \in Segments, seg'[k] # NoEntry, Busy(seg'[k]) PROVE Worked(k)
    BY <1>00 DEF BusyInv, Running, Present, Busy
  <2>2. Kept(k) BY <2>1 DEF Dropped, Made
  <2>. QED BY <2>1, <2>2 DEF RunsInv, BusyInv, Running, Kept, Busy
<1>4. CachedInv'
  <2>1. SUFFICES ASSUME NEW k \in Segments, seg'[k] # NoEntry, seg'[k].gen = 0, Worked(k) PROVE k \in file'
    BY <1>00 DEF CachedInv, Present
  <2>2. CASE Kept(k) BY <2>1, <2>2 DEF RunsInv, CachedInv, Kept
  <2>. QED BY <2>1, <2>2 DEF Dropped, Made
<1>5. DoneIsClosedOnce' BY DEF RunsInv, DoneIsClosedOnce
<1>. QED BY <1>1, <1>2, <1>3, <1>4, <1>5 DEF RunsInv

LEMMA RunMoves ==
    ASSUME Typed, RunsInv, NEW j \in Jobs, Alive(j), NEW r, r.at \notin {"none", "ended"},
           run' = [run EXCEPT ![j] = r], UNCHANGED <<closed, undercut>>, file \subseteq file',
           \A k \in Segments : seg'[k] = seg[k] \/ (k = j[1] /\ Present(k) /\ seg'[k] # NoEntry
               /\ seg'[k].gen = seg[k].gen /\ (InLine(seg[k]) => InLine(seg'[k]) \/ k \in file'))
    PROVE  RunsInv'
<1>0. \A i \in Jobs : (Alive(i)' <=> Alive(i)) /\ (run'[i].at = "none" <=> run[i].at = "none")
                      /\ (run'[i].at = "ended" <=> run[i].at = "ended")
  BY DEF Alive, Typed
<1>00. \A k \in Segments : Worked(k)' <=> Worked(k) BY <1>0 DEF Worked
<1>01. \A k \in Segments : (seg'[k] # NoEntry <=> Present(k)) /\ (Present(k) => seg'[k].gen = seg[k].gen)
  BY DEF Present
<1>1. OwnedInv'
  <2>1. SUFFICES ASSUME NEW k \in Segments, k \notin undercut, NEW g \in Gens, Alive(<<k, g>>)
                 PROVE  seg'[k] # NoEntry /\ seg'[k].gen = g /\ (InLine(seg'[k]) \/ k \in file')
    BY <1>0 DEF OwnedInv, Present, InLine
  <2>2. Present(k) /\ seg[k].gen = g /\ (InLine(seg[k]) \/ k \in file)
    BY <2>1 DEF RunsInv, OwnedInv, InLine
  <2>. QED BY <2>1, <2>2 DEF Present
<1>2. BornInv'
  <2>1. SUFFICES ASSUME NEW k \in Segments, seg'[k] # NoEntry, seg'[k].gen # 0
                 PROVE  run'[<<k, seg'[k].gen>>].at # "none"
    BY DEF BornInv, Present
  <2>2. Present(k) /\ seg'[k].gen = seg[k].gen BY <1>01, <2>1
  <2>3. seg[k].gen \in Gens
    <3>1. seg[k].gen \in 0 .. MaxRuns BY <2>2, EntryGen DEF Typed, Present
    <3>. QED BY <2>1, <2>2, <3>1
  <2>. QED BY <1>0, <2>1, <2>2, <2>3 DEF RunsInv, BornInv
<1>3. BusyInv'
  <2>1. SUFFICES ASSUME NEW k \in Segments, seg'[k] # NoEntry, Busy(seg'[k]) PROVE Worked(k)
    BY <1>00 DEF BusyInv, Running, Present, Busy
  <2>2. CASE k = j[1] BY <2>2 DEF Worked
  <2>3. CASE k # j[1] BY <2>1, <2>3 DEF RunsInv, BusyInv, Running, Busy, Present
  <2>. QED BY <2>2, <2>3
<1>4. CachedInv' BY <1>00, <1>01 DEF RunsInv, CachedInv, Present
<1>5. DoneIsClosedOnce' BY <1>0 DEF RunsInv, DoneIsClosedOnce
<1>. QED BY <1>1, <1>2, <1>3, <1>4, <1>5 DEF RunsInv

LEMMA FinishInv ==
    ASSUME Typed, RunsInv, NEW j \in Jobs, Finish(j)
    PROVE  RunsInv'
<1>. DEFINE k == j[1]
<1>0. k \in Segments /\ j[2] \in Gens /\ j = <<k, j[2]>> OBVIOUS
<1>1. /\ \A i \in Jobs : i # j => (Alive(i)' <=> Alive(i)) /\ run'[i] = run[i]
      /\ ~Alive(j)' /\ run'[j].at = "ended" /\ Alive(j)
  BY DEF Finish, To, Typed, Alive
<1>2. /\ \A l \in Segments : l # k => seg'[l] = seg[l]
      /\ seg'[k] # NoEntry => Present(k) /\ seg'[k].gen = seg[k].gen /\ ~Busy(seg'[k])
      /\ Present(k) => seg[k] \in Entry
  <2>1. Present(k) => seg[k] \in Entry BY <1>0 DEF Typed, Present
  <2>2. CASE ~Present(k) BY <1>0, <2>2 DEF Finish, Present
  <2>3. CASE Present(k) /\ seg[k].doomed BY <1>0, <2>3 DEF Finish, Typed, Present
  <2>4. CASE Present(k) /\ ~seg[k].doomed
    <3>. DEFINE e == [seg[k] EXCEPT !.queued = FALSE, !.claiming = FALSE, !.transcoding = FALSE,
                                    !.cancel = FALSE, !.priority = 0, !.owner = ""]
    <3>1. seg' = [seg EXCEPT ![k] = e] BY <1>0, <2>4 DEF Finish
    <3>2. e.gen = seg[k].gen /\ ~Busy(e) BY <2>1, <2>4 DEF Entry, Busy
    <3>. HIDE DEF e
    <3>. QED BY <1>0, <2>1, <2>4, <3>1, <3>2 DEF Typed
  <2>. QED BY <2>1, <2>2, <2>3, <2>4
<1>3. UNCHANGED <<file, undercut>> BY DEF Finish, RunKeeps
<1>4. k \notin undercut => /\ Present(k) /\ seg[k].gen = j[2]
                           /\ \A g \in Gens : g # j[2] => ~Alive(<<k, g>>)
  BY <1>0, <1>1 DEF RunsInv, OwnedInv
<1>5. OwnedInv'
  <2>1. SUFFICES ASSUME NEW l \in Segments, l \notin undercut, NEW g \in Gens, Alive(<<l, g>>)'
                 PROVE  seg'[l] # NoEntry /\ seg'[l].gen = g /\ (InLine(seg'[l]) \/ l \in file)
    BY <1>3 DEF OwnedInv, Present, InLine
  <2>2. <<l, g>> # j /\ Alive(<<l, g>>) BY <1>1, <2>1
  <2>3. l # k BY <1>0, <1>4, <2>1, <2>2
  <2>. QED BY <1>2, <2>1, <2>2, <2>3 DEF RunsInv, OwnedInv, Present, InLine
<1>6. BornInv'
  <2>1. SUFFICES ASSUME NEW l \in Segments, seg'[l] # NoEntry, seg'[l].gen # 0
                 PROVE  run'[<<l, seg'[l].gen>>].at # "none"
    BY DEF BornInv, Present
  <2>2. Present(l) /\ seg'[l].gen = seg[l].gen BY <1>2, <2>1 DEF Present
  <2>3. seg[l].gen \in Gens BY <2>1, <2>2, EntryGen DEF Typed, Present
  <2>. QED BY <1>1, <2>1, <2>2, <2>3 DEF RunsInv, BornInv
<1>7. BusyInv'
  <2>1. SUFFICES ASSUME NEW l \in Segments, seg'[l] # NoEntry, Busy(seg'[l]) PROVE Worked(l)'
    BY DEF BusyInv, Running, Present, Busy
  <2>2. l # k /\ seg'[l] = seg[l] BY <1>2, <2>1
  <2>3. PICK g \in Gens : Alive(<<l, g>>)
    BY <2>1, <2>2 DEF RunsInv, BusyInv, Running, Busy, Present, Worked
  <2>4. <<l, g>> # j BY <1>0, <2>2
  <2>. QED BY <1>1, <2>3, <2>4 DEF Worked
<1>8. CachedInv'
  <2>1. SUFFICES ASSUME NEW l \in Segments, seg'[l] # NoEntry, seg'[l].gen = 0, Worked(l)' PROVE l \in file
    BY <1>3 DEF CachedInv, Present
  <2>2. Present(l) /\ seg[l].gen = 0 BY <1>2, <2>1 DEF Present
  <2>3. Worked(l) BY <1>0, <1>1, <2>1 DEF Worked
  <2>. QED BY <2>2, <2>3 DEF RunsInv, CachedInv
<1>9. DoneIsClosedOnce'
  <2>1. SUFFICES ASSUME NEW i \in Jobs, i[1] \notin undercut
                 PROVE  closed'[i] = IF run'[i].at = "ended" THEN 1 ELSE 0
    BY <1>3 DEF DoneIsClosedOnce
  <2>2. closed[i] = IF run[i].at = "ended" THEN 1 ELSE 0 BY <2>1 DEF RunsInv, DoneIsClosedOnce
  <2>3. CASE i = j
    <3>1. Present(k) /\ <<k, seg[k].gen>> = j BY <1>0, <1>4, <2>1, <2>3
    <3>2. closed[j] = 0 BY <2>2, <2>3, <1>1 DEF Alive
    <3>3. closed' = [closed EXCEPT ![j] = IF @ = 2 THEN 2 ELSE @ + 1]
      BY <1>0, <3>1 DEF Finish, ReportsTo
    <3>4. closed'[j] = 1 BY <3>2, <3>3 DEF Typed
    <3>. QED BY <1>1, <2>3, <3>4
  <2>4. CASE i # j
    <3>1. closed'[i] = closed[i]
      <4>1. CASE i[1] = k
        <5>1. <<k, seg[k].gen>> = j BY <1>0, <1>4, <2>1, <4>1
        <5>. QED BY <2>4, <5>1 DEF Finish, Typed
      <4>2. CASE i[1] # k BY <4>2 DEF Finish, Typed
      <4>. QED BY <4>1, <4>2
    <3>. QED BY <1>1, <2>2, <2>4, <3>1
  <2>. QED BY <2>3, <2>4
<1>. QED BY <1>5, <1>6, <1>7, <1>8, <1>9 DEF RunsInv

LEMMA StartsInv ==
    ASSUME Typed, RunsInv, NEW c \in Callers, NEW g \in Gens, EnsureStarts(c, g),
           UNCHANGED <<file, undercut>>
    PROVE  RunsInv'
<1>. PICK k \in Segments : k = req[c].segment BY CallerParts
<1>. DEFINE j == <<k, g>>
<1>0. k \in Segments /\ j \in Jobs OBVIOUS
<1>1. /\ \A i \in Jobs : i # j => (Alive(i)' <=> Alive(i)) /\ run'[i] = run[i]
      /\ run'[j].at = "start" /\ ~Alive(j) /\ Alive(j)' /\ run[j].at = "none"
  <2>1. run' = [run EXCEPT ![j].at = "start"] /\ run[j].at = "none" BY DEF EnsureStarts
  <2>2. \A i \in Jobs : run'[i] = IF i = j THEN [run[j] EXCEPT !.at = "start"] ELSE run[i]
    BY <1>0, <2>1 DEF Typed
  <2>3. run[j] \in [at : Phases, took : 0 .. MaxRuns] BY <1>0 DEF Typed
  <2>4. run'[j].at = "start" BY <1>0, <2>2, <2>3
  <2>5. \A i \in Jobs : i # j => run'[i] = run[i] BY <2>2
  <2>6. ~Alive(j) /\ Alive(j)' BY <2>1, <2>4 DEF Alive
  <2>7. \A i \in Jobs : i # j => (Alive(i)' <=> Alive(i)) BY <2>5 DEF Alive
  <2>. QED BY <2>1, <2>4, <2>5, <2>6, <2>7
<1>2. /\ \A l \in Segments : l # k => seg'[l] = seg[l]
      /\ seg'[k] # NoEntry /\ seg'[k].gen = g /\ InLine(seg'[k])
  <2>. DEFINE e == [gen |-> g, sessions |-> {c[1]}, owner |-> c[1], queued |-> TRUE, claiming |-> FALSE,
           transcoding |-> FALSE, priority |-> req[c].priority, doomed |-> FALSE, cancel |-> TRUE]
  <2>1. e.gen = g /\ InLine(e) BY DEF InLine
  <2>2. seg' = [seg EXCEPT ![k] = e] BY DEF EnsureStarts
  <2>3. e # NoEntry
    <3>1. NoEntry.gen = -1 BY DEF NoEntry
    <3>. HIDE DEF e
    <3>. QED BY <2>1, <3>1
  <2>. HIDE DEF e
  <2>. QED BY <1>0, <2>1, <2>2, <2>3 DEF Typed
<1>3. k \notin undercut => ~Worked(k)
  BY <1>0 DEF EnsureStarts, RunsInv, OwnedInv, Worked, Running
<1>4. UNCHANGED closed BY DEF EnsureStarts
<1>5. OwnedInv'
  <2>1. SUFFICES ASSUME NEW l \in Segments, l \notin undercut, NEW h \in Gens, Alive(<<l, h>>)'
                 PROVE  seg'[l] # NoEntry /\ seg'[l].gen = h /\ (InLine(seg'[l]) \/ l \in file)
    BY DEF OwnedInv, Present, InLine
  <2>2. CASE <<l, h>> = j BY <1>2, <2>2
  <2>3. CASE <<l, h>> # j
    <3>1. Alive(<<l, h>>) BY <1>1, <2>1, <2>3
    <3>2. l # k BY <1>3, <2>1, <3>1 DEF Worked
    <3>. QED BY <1>2, <2>1, <3>1, <3>2 DEF RunsInv, OwnedInv, Present, InLine
  <2>. QED BY <2>2, <2>3
<1>6. BornInv'
  <2>1. SUFFICES ASSUME NEW l \in Segments, seg'[l] # NoEntry, seg'[l].gen # 0
                 PROVE  run'[<<l, seg'[l].gen>>].at # "none"
    BY DEF BornInv, Present
  <2>2. CASE l = k BY <1>1, <1>2, <2>2
  <2>3. CASE l # k
    <3>1. Present(l) /\ seg'[l] = seg[l] BY <1>2, <2>1, <2>3 DEF Present
    <3>2. seg[l].gen \in 0 .. MaxRuns BY <3>1, EntryGen DEF Typed, Present
    <3>3. seg[l].gen \in Gens BY <2>1, <3>1, <3>2
    <3>. QED BY <1>1, <2>1, <2>3, <3>1, <3>3 DEF RunsInv, BornInv
  <2>. QED BY <2>2, <2>3
<1>7. BusyInv'
  <2>1. SUFFICES ASSUME NEW l \in Segments, seg'[l] # NoEntry, Busy(seg'[l]) PROVE Worked(l)'
    BY DEF BusyInv, Running, Present, Busy
  <2>2. CASE l = k BY <1>1, <2>2 DEF Worked, Alive
  <2>3. CASE l # k
    <3>1. PICK h \in Gens : Alive(<<l, h>>)
      BY <1>2, <2>1, <2>3 DEF RunsInv, BusyInv, Running, Busy, Present, Worked
    <3>. QED BY <1>1, <2>3, <3>1 DEF Worked
  <2>. QED BY <2>2, <2>3
<1>8. CachedInv'
  <2>1. SUFFICES ASSUME NEW l \in Segments, seg'[l] # NoEntry, seg'[l].gen = 0, Worked(l)' PROVE l \in file
    BY DEF CachedInv, Present
  <2>2. l # k BY <1>2, <2>1
  <2>3. Worked(l) BY <1>1, <2>1, <2>2 DEF Worked
  <2>. QED BY <1>2, <2>1, <2>2, <2>3 DEF RunsInv, CachedInv, Present
<1>9. DoneIsClosedOnce' BY <1>0, <1>1, <1>4 DEF RunsInv, DoneIsClosedOnce
<1>. QED BY <1>5, <1>6, <1>7, <1>8, <1>9 DEF RunsInv

-----------------------------------------------------------------------------
\* What the waiting requests rely on survives every step that makes nobody wait.
Unmoved(k) ==
    \/ seg'[k] = NoEntry \/ seg'[k].gen = 0
    \/ /\ Present(k) /\ seg'[k].gen = seg[k].gen
       /\ seg[k].sessions \subseteq seg'[k].sessions /\ (seg'[k].doomed => seg[k].doomed)

NobodyNew ==
    \A c \in Callers : req'[c].at = "wait" =>
        /\ Waits(c) /\ req'[c].segment = req[c].segment /\ req'[c].gen = req[c].gen
        /\ req[c].left => req'[c].left

RunsGoOn == \A j \in Jobs : run[j].at # "none" => run'[j].at # "none"

LEMMA AskedKeeps ==
    ASSUME Typed, AskedInv, NobodyNew, RunsGoOn
    PROVE  AskedInv'
<1>1. SUFFICES ASSUME NEW c \in Callers, req'[c].at = "wait"
               PROVE  req'[c].gen \in Gens /\ run'[<<req'[c].segment, req'[c].gen>>].at # "none"
  BY DEF AskedInv, Waits
<1>2. req'[c].segment = req[c].segment /\ req'[c].gen = req[c].gen /\ Waits(c) BY <1>1 DEF NobodyNew
<1>3. <<req[c].segment, req[c].gen>> \in Jobs BY <1>2, CallerParts DEF AskedInv
<1>. QED BY <1>2, <1>3 DEF AskedInv, RunsGoOn

LEMMA WantedKeeps ==
    ASSUME Typed, AskedInv, WantedInv, NobodyNew, \A k \in Segments : Unmoved(k)
    PROVE  WantedInv'
<1>1. SUFFICES ASSUME NEW c \in Callers, req'[c].at = "wait", ~req'[c].left,
                      seg'[req'[c].segment] # NoEntry, seg'[req'[c].segment].gen = req'[c].gen
               PROVE  c[1] \in seg'[req'[c].segment].sessions /\ ~seg'[req'[c].segment].doomed
  BY DEF WantedInv, Waits, Present
<1>2. req'[c].segment = req[c].segment /\ req'[c].gen = req[c].gen /\ Waits(c) /\ ~req[c].left
  BY <1>1 DEF NobodyNew
<1>3. req[c].segment \in Segments BY CallerParts
<1>4. req[c].gen # 0
  <2>1. req[c].gen \in Gens BY <1>2 DEF AskedInv
  <2>. QED BY <2>1
<1>5. /\ Present(req[c].segment) /\ seg[req[c].segment].gen = req[c].gen
      /\ seg[req[c].segment].sessions \subseteq seg'[req[c].segment].sessions
      /\ seg'[req[c].segment].doomed => seg[req[c].segment].doomed
  BY <1>1, <1>2, <1>3, <1>4 DEF Unmoved
<1>. QED BY <1>2, <1>5 DEF WantedInv

LEMMA StopMoves ==
    ASSUME Typed, NEW s \in Sessions, StopSession(s), NEW k \in Segments
    PROVE  \/ seg'[k] = seg[k]
           \/ seg'[k] = NoEntry /\ (k \in undercut' \/ ~Worked(k))
           \/ /\ Present(k) /\ seg'[k] # NoEntry /\ seg'[k].gen = seg[k].gen
              /\ seg'[k].sessions = seg[k].sessions \ {s}
              /\ seg'[k].doomed => seg[k].doomed \/ seg[k].sessions = {s}
              /\ seg'[k].queued = seg[k].queued /\ seg'[k].claiming = seg[k].claiming
              /\ seg'[k].transcoding = seg[k].transcoding /\ seg'[k].cancel = seg[k].cancel
<1>. DEFINE leaves == {l \in Segments : Present(l) /\ s \in seg[l].sessions}
            last == LastLeaving(s)
            stay(l, w) == [seg[l] EXCEPT !.sessions = @ \ {s}, !.owner = w, !.doomed = @ \/ l \in last]
<1>1. PICK heir \in [leaves -> Sessions \cup {""}] :
          seg' = [l \in Segments |->
                    IF l \notin leaves THEN seg[l]
                    ELSE IF l \in last /\ ~Running(l) THEN NoEntry ELSE stay(l, heir[l])]
  BY DEF StopSession
<1>2. undercut' = undercut \cup {l \in last : ~Running(l) /\ Worked(l)}
  BY DEF StopSession, Undercut, Worked
<1>3. CASE k \notin leaves BY <1>1, <1>3
<1>4. CASE k \in leaves /\ k \in last /\ ~Running(k) BY <1>1, <1>2, <1>4
<1>5. CASE k \in leaves /\ ~(k \in last /\ ~Running(k))
  <2>1. seg'[k] = stay(k, heir[k]) BY <1>1, <1>5
  <2>2. seg[k] \in Entry BY <1>5 DEF Typed, Present
  <2>3. \A w : LET e == stay(k, w) IN
           /\ e.gen = seg[k].gen /\ e.sessions = seg[k].sessions \ {s}
           /\ e.doomed = (seg[k].doomed \/ k \in last)
           /\ e.queued = seg[k].queued /\ e.claiming = seg[k].claiming
           /\ e.transcoding = seg[k].transcoding /\ e.cancel = seg[k].cancel
    BY <2>2 DEF Entry
  <2>4. k \in last => seg[k].sessions = {s} BY DEF LastLeaving
  <2>. HIDE DEF stay
  <2>5. seg'[k] # NoEntry
    <3>1. seg'[k].gen = seg[k].gen BY <2>1, <2>3
    <3>2. seg[k].gen \in 0 .. MaxRuns BY <2>2, EntryGen
    <3>. QED BY <3>1, <3>2, NumberedIsSome
  <2>. QED BY <1>5, <2>1, <2>3, <2>4, <2>5
<1>. QED BY <1>3, <1>4, <1>5

LEMMA StopInv ==
    ASSUME Typed, RunsInv, AskedInv, WantedInv, NEW s \in Sessions, StopSession(s),
           UNCHANGED <<run, closed, file>>,
           \A c \in Callers : req'[c].at = "wait" =>
               /\ Waits(c) /\ req'[c].segment = req[c].segment /\ req'[c].gen = req[c].gen
               /\ (req[c].left \/ c[1] = s) => req'[c].left
    PROVE  RunsInv' /\ AskedInv' /\ WantedInv'
<1>2. undercut' = undercut \cup {k \in LastLeaving(s) : ~Running(k) /\ Worked(k)}
  BY DEF StopSession, Undercut, Worked
<1>3. ASSUME NEW k \in Segments
      PROVE  \/ seg'[k] = seg[k]
             \/ seg'[k] = NoEntry /\ (k \in undercut' \/ ~Worked(k))
             \/ /\ Present(k) /\ seg'[k] # NoEntry /\ seg'[k].gen = seg[k].gen
                /\ seg'[k].sessions = seg[k].sessions \ {s}
                /\ seg'[k].doomed => seg[k].doomed \/ seg[k].sessions = {s}
                /\ (Busy(seg'[k]) <=> Busy(seg[k])) /\ (InLine(seg'[k]) <=> InLine(seg[k]))
  BY StopMoves DEF Busy, InLine
<1>4. RunsInv'
  <2>1. \A k \in Segments : Dropped(k) \/ Kept(k) \/ Made(k)
    <3>1. ASSUME NEW k \in Segments PROVE Dropped(k) \/ Kept(k)
      <4>1. CASE Present(k) BY <1>3, <4>1 DEF Dropped, Kept, Present
      <4>2. CASE ~Present(k)
        <5>1. k \notin undercut => ~Worked(k) BY <4>2 DEF RunsInv, OwnedInv, Worked
        <5>. QED BY <1>2, <1>3, <4>2, <5>1 DEF Dropped, Present
      <4>. QED BY <4>1, <4>2
    <3>. QED BY <3>1
  <2>2. undercut \subseteq undercut' BY <1>2
  <2>. QED BY <2>1, <2>2, EntriesMove
<1>5. AskedInv' BY AskedKeeps DEF NobodyNew, RunsGoOn
<1>6. WantedInv'
  <2>1. SUFFICES ASSUME NEW c \in Callers, req'[c].at = "wait", ~req'[c].left,
                        seg'[req[c].segment] # NoEntry, seg'[req[c].segment].gen = req[c].gen,
                        Waits(c), ~req[c].left, c[1] # s,
                        req'[c].segment = req[c].segment, req'[c].gen = req[c].gen
                 PROVE  c[1] \in seg'[req[c].segment].sessions /\ ~seg'[req[c].segment].doomed
    BY DEF WantedInv, Waits, Present
  <2>2. req[c].segment \in Segments BY CallerParts
  <2>3. /\ Present(req[c].segment) /\ seg[req[c].segment].gen = req[c].gen
    BY <1>3, <2>1, <2>2 DEF Present
  <2>4. c[1] \in seg[req[c].segment].sessions /\ ~seg[req[c].segment].doomed BY <2>1, <2>3 DEF WantedInv
  <2>5. PICK k \in Segments : k = req[c].segment BY <2>2
  <2>6. CASE seg'[k] = seg[k] BY <2>4, <2>5, <2>6
  <2>7. CASE /\ seg'[k].sessions = seg[k].sessions \ {s}
             /\ seg'[k].doomed => seg[k].doomed \/ seg[k].sessions = {s}
    <3>1. c[1] \in seg'[k].sessions BY <2>1, <2>4, <2>5, <2>7
    <3>2. seg[k].sessions # {s} BY <2>1, <2>4, <2>5
    <3>. QED BY <2>4, <2>5, <2>7, <3>1, <3>2
  <2>. QED BY <1>3, <2>1, <2>5, <2>6, <2>7
<1>. QED BY <1>4, <1>5, <1>6

LEMMA EnsureInv ==
    ASSUME IInv, NEW c \in Callers, Ensure(c)
    PROVE  RunsInv' /\ AskedInv' /\ WantedInv'
<1>. PICK k \in Segments : k = req[c].segment BY CallerParts DEF IInv
<1>0. /\ Typed /\ RunsInv /\ AskedInv /\ WantedInv /\ undercut' = undercut /\ file' = file
      /\ c[1] \in Sessions /\ req[c] \in RequestType
  BY CallerParts DEF IInv, RunsInv, Ensure
<1>1. CASE EnsureBlocked(c)
  <2>1. UNCHANGED <<seg, run, closed>> BY <1>1 DEF EnsureBlocked, KeepsRuns
  <2>2. \A l \in Segments : Dropped(l) \/ Kept(l)
    <3>1. ASSUME NEW l \in Segments PROVE Dropped(l) \/ Kept(l)
      <4>1. CASE Present(l) BY <2>1, <4>1 DEF Kept, Present
      <4>2. CASE ~Present(l)
        <5>1. l \notin undercut => ~Worked(l) BY <1>0, <4>2 DEF RunsInv, OwnedInv, Worked
        <5>. QED BY <1>0, <2>1, <4>2, <5>1 DEF Dropped, Present
      <4>. QED BY <4>1, <4>2
    <3>. QED BY <3>1
  <2>3. RunsInv' BY <1>0, <2>1, <2>2, EntriesMove
  <2>4. NobodyNew BY <1>0, <1>1 DEF EnsureBlocked, Move, NobodyNew, Typed, Waits
  <2>5. RunsGoOn /\ \A l \in Segments : Unmoved(l) BY <2>1 DEF RunsGoOn, Unmoved, Present
  <2>. QED BY <1>0, <2>3, <2>4, <2>5, AskedKeeps, WantedKeeps
<1>2. CASE EnsureCached(c)
  <2>1. UNCHANGED <<run, closed>> BY <1>2 DEF EnsureCached, KeepsRuns
  <2>2. PICK e : /\ seg' = [seg EXCEPT ![k] = e] /\ e # NoEntry
                 /\ Present(k) => /\ e.gen = seg[k].gen /\ seg[k].sessions \subseteq e.sessions
                                  /\ e.doomed = seg[k].doomed /\ (Busy(e) => Busy(seg[k]))
                 /\ ~Present(k) => e.gen = 0 /\ ~Busy(e)
    <3>1. CASE Present(k)
      <4>. DEFINE e == [seg[k] EXCEPT !.sessions = Join(k, c[1]), !.queued = FALSE, !.transcoding = FALSE]
      <4>1. seg' = [seg EXCEPT ![k] = e] BY <1>2, <3>1 DEF EnsureCached
      <4>2. seg[k] \in Entry BY <1>0, <3>1 DEF Typed, Present
      <4>3. /\ e.gen = seg[k].gen /\ seg[k].sessions \subseteq e.sessions
            /\ e.doomed = seg[k].doomed /\ (Busy(e) => Busy(seg[k]))
        BY <4>2 DEF Entry, Join, Busy
      <4>4. e # NoEntry BY <4>2, <4>3, EntryGen, NumberedIsSome
      <4>. HIDE DEF e
      <4>. QED BY <3>1, <4>1, <4>3, <4>4
    <3>2. CASE ~Present(k)
      <4>. DEFINE e == [gen |-> 0, sessions |-> {c[1]}, owner |-> "", queued |-> FALSE, claiming |-> FALSE,
                        transcoding |-> FALSE, priority |-> 0, doomed |-> FALSE, cancel |-> FALSE]
      <4>1. seg' = [seg EXCEPT ![k] = e] BY <1>2, <3>2 DEF EnsureCached
      <4>2. e.gen = 0 /\ ~Busy(e) BY DEF Busy
      <4>3. 0 \in 0 .. MaxRuns BY ConstantsAssumption
      <4>. HIDE DEF e
      <4>4. e # NoEntry BY <4>2, <4>3, NumberedIsSome
      <4>. QED BY <3>2, <4>1, <4>2, <4>4
    <3>. QED BY <3>1, <3>2
  <2>3. k \in file BY <1>2 DEF EnsureCached
  <2>4. seg'[k] = e /\ \A l \in Segments : l # k => seg'[l] = seg[l] BY <1>0, <2>2 DEF Typed
  <2>5. \A l \in Segments : Dropped(l) \/ Kept(l) \/ Made(l)
    <3>1. ASSUME NEW l \in Segments PROVE Dropped(l) \/ Kept(l) \/ Made(l)
      <4>1. CASE l = k BY <1>0, <2>2, <2>3, <2>4, <4>1 DEF Kept, Made, Present
      <4>2. CASE l # k /\ Present(l) BY <2>4, <4>2 DEF Kept, Present
      <4>3. CASE l # k /\ ~Present(l)
        <5>1. l \notin undercut => ~Worked(l) BY <1>0, <4>3 DEF RunsInv, OwnedInv, Worked
        <5>. QED BY <1>0, <2>4, <4>3, <5>1 DEF Dropped, Present
      <4>. QED BY <4>1, <4>2, <4>3
    <3>. QED BY <3>1
  <2>6. RunsInv' BY <1>0, <2>1, <2>5, EntriesMove
  <2>7. NobodyNew BY <1>0, <1>2, AfterWaitTyped DEF EnsureCached, NobodyNew, Typed, Waits
  <2>8. RunsGoOn BY <2>1 DEF RunsGoOn
  <2>9. \A l \in Segments : Unmoved(l) BY <2>2, <2>4 DEF Unmoved, Present
  <2>. QED BY <1>0, <2>6, <2>7, <2>8, <2>9, AskedKeeps, WantedKeeps
<1>3. CASE EnsureJoins(c)
  <2>1. UNCHANGED <<run, closed>> BY <1>3 DEF EnsureJoins, KeepsRuns
  <2>2. Running(k) /\ ~seg[k].doomed /\ k \notin file /\ Present(k) BY <1>3 DEF EnsureJoins, Running
  <2>3. seg[k] \in Entry BY <1>0, <2>2 DEF Typed, Present
  <2>4. PICK p \in 0 .. Playback, w \in Sessions \cup {""} :
            seg' = [seg EXCEPT ![k] = [seg[k] EXCEPT !.sessions = Join(k, c[1]), !.priority = p, !.owner = w]]
    BY <1>0, <1>3, JoinsShape
  <2>. DEFINE e == [seg[k] EXCEPT !.sessions = Join(k, c[1]), !.priority = p, !.owner = w]
  <2>5. /\ e.gen = seg[k].gen /\ e.sessions = seg[k].sessions \cup {c[1]} /\ e.doomed = seg[k].doomed
        /\ (Busy(e) <=> Busy(seg[k])) /\ (InLine(e) <=> InLine(seg[k]))
    BY <2>3 DEF Entry, Join, Busy, InLine
  <2>6. e # NoEntry BY <2>3, <2>5, EntryGen, NumberedIsSome
  <2>7. seg'[k] = e /\ \A l \in Segments : l # k => seg'[l] = seg[l] BY <1>0, <2>4 DEF Typed
  <2>. HIDE DEF e
  <2>8. \A l \in Segments : Dropped(l) \/ Kept(l)
    <3>1. ASSUME NEW l \in Segments PROVE Dropped(l) \/ Kept(l)
      <4>1. CASE l = k BY <2>2, <2>5, <2>6, <2>7, <4>1 DEF Kept
      <4>2. CASE l # k /\ Present(l) BY <2>7, <4>2 DEF Kept, Present
      <4>3. CASE l # k /\ ~Present(l)
        <5>1. l \notin undercut => ~Worked(l) BY <1>0, <4>3 DEF RunsInv, OwnedInv, Worked
        <5>. QED BY <1>0, <2>7, <4>3, <5>1 DEF Dropped, Present
      <4>. QED BY <4>1, <4>2, <4>3
    <3>. QED BY <3>1
  <2>9. RunsInv' BY <1>0, <2>1, <2>8, EntriesMove
  <2>10. seg[k].gen \in Gens /\ run[<<k, seg[k].gen>>].at # "none"
    <3>1. Worked(k) BY <1>0, <2>2 DEF RunsInv, BusyInv
    <3>2. seg[k].gen # 0 BY <1>0, <2>2, <3>1 DEF RunsInv, CachedInv
    <3>3. seg[k].gen \in 0 .. MaxRuns BY <2>3, EntryGen
    <3>4. seg[k].gen \in Gens BY <3>2, <3>3, GenOf
    <3>. QED BY <1>0, <2>2, <3>2, <3>4 DEF RunsInv, BornInv
  <2>11. /\ req'[c].at = "wait" /\ req'[c].gen = seg[k].gen /\ req'[c].segment = k
         /\ \A d \in Callers : d # c => req'[d] = req[d]
    BY <1>0, <1>3 DEF EnsureJoins, Move, Typed, RequestType
  <2>12. AskedInv'
    <3>1. SUFFICES ASSUME NEW d \in Callers, req'[d].at = "wait"
                   PROVE  req'[d].gen \in Gens /\ run[<<req'[d].segment, req'[d].gen>>].at # "none"
      BY <2>1 DEF AskedInv, Waits
    <3>2. CASE d = c BY <2>10, <2>11, <3>2
    <3>3. CASE d # c BY <1>0, <2>11, <3>1, <3>3 DEF AskedInv, Waits
    <3>. QED BY <3>2, <3>3
  <2>13. WantedInv'
    <3>1. SUFFICES ASSUME NEW d \in Callers, req'[d].at = "wait", ~req'[d].left,
                          seg'[req'[d].segment] # NoEntry, seg'[req'[d].segment].gen = req'[d].gen
                   PROVE  d[1] \in seg'[req'[d].segment].sessions /\ ~seg'[req'[d].segment].doomed
      BY DEF WantedInv, Waits, Present
    <3>2. CASE d = c BY <2>2, <2>5, <2>7, <2>11, <3>2
    <3>3. CASE d # c
      <4>1. req'[d] = req[d] /\ req[d].segment \in Segments BY <1>0, <2>11, <3>3, CallerParts
      <4>2. Present(req[d].segment) /\ seg[req[d].segment].gen = req[d].gen
        <5>1. CASE req[d].segment = k BY <2>2, <2>5, <2>7, <3>1, <4>1, <5>1, ZenonT(40)
        <5>2. CASE req[d].segment # k
          <6>1. seg'[req[d].segment] = seg[req[d].segment] BY <2>7, <4>1, <5>2
          <6>. QED BY <3>1, <4>1, <6>1 DEF Present
        <5>. QED BY <5>1, <5>2
      <4>3. d[1] \in seg[req[d].segment].sessions /\ ~seg[req[d].segment].doomed
        BY <1>0, <3>1, <4>1, <4>2 DEF WantedInv, Waits
      <4>. QED BY <2>5, <2>7, <4>1, <4>3
    <3>. QED BY <3>2, <3>3
  <2>. QED BY <2>9, <2>12, <2>13
<1>4. ASSUME NEW g \in Gens, EnsureStarts(c, g) PROVE RunsInv' /\ AskedInv' /\ WantedInv'
  <2>. DEFINE j == <<k, g>>
              e == [gen |-> g, sessions |-> {c[1]}, owner |-> c[1], queued |-> TRUE, claiming |-> FALSE,
           transcoding |-> FALSE, priority |-> req[c].priority, doomed |-> FALSE, cancel |-> TRUE]
  <2>1. RunsInv' BY <1>0, <1>4, StartsInv
  <2>2. run[j].at = "none" /\ run' = [run EXCEPT ![j].at = "start"] /\ j \in Jobs BY <1>4 DEF EnsureStarts
  <2>3. run'[j].at # "none" /\ \A i \in Jobs : i # j => run'[i] = run[i]
    BY <1>0, <2>2 DEF Typed
  <2>4. seg' = [seg EXCEPT ![k] = e] BY <1>4 DEF EnsureStarts
  <2>5. e.gen = g /\ e.sessions = {c[1]} /\ ~e.doomed OBVIOUS
  <2>. HIDE DEF e
  <2>6. seg'[k] = e /\ \A l \in Segments : l # k => seg'[l] = seg[l] BY <1>0, <2>4 DEF Typed
  <2>7. /\ req'[c].at = "wait" /\ req'[c].gen = g /\ req'[c].segment = k
        /\ \A d \in Callers : d # c => req'[d] = req[d]
    BY <1>0, <1>4 DEF EnsureStarts, Move, Typed, RequestType
  <2>8. ASSUME NEW d \in Callers, d # c, Waits(d)
        PROVE  /\ req[d].gen \in Gens /\ <<req[d].segment, req[d].gen>> \in Jobs
               /\ run[<<req[d].segment, req[d].gen>>].at # "none"
    BY <1>0, <2>8, CallerParts DEF AskedInv
  <2>9. AskedInv'
    <3>1. SUFFICES ASSUME NEW d \in Callers, req'[d].at = "wait"
                   PROVE  req'[d].gen \in Gens /\ run'[<<req'[d].segment, req'[d].gen>>].at # "none"
      BY DEF AskedInv, Waits
    <3>2. CASE d = c BY <2>3, <2>7, <3>2
    <3>3. CASE d # c
      <4>1. req'[d] = req[d] /\ Waits(d) BY <2>7, <3>1, <3>3 DEF Waits
      <4>2. <<req[d].segment, req[d].gen>> # j BY <2>2, <2>8, <3>3, <4>1
      <4>. QED BY <2>3, <2>8, <3>3, <4>1, <4>2
    <3>. QED BY <3>2, <3>3
  <2>10. WantedInv'
    <3>1. SUFFICES ASSUME NEW d \in Callers, req'[d].at = "wait", ~req'[d].left,
                          seg'[req'[d].segment] # NoEntry, seg'[req'[d].segment].gen = req'[d].gen
                   PROVE  d[1] \in seg'[req'[d].segment].sessions /\ ~seg'[req'[d].segment].doomed
      BY DEF WantedInv, Waits, Present
    <3>2. CASE d = c BY <2>5, <2>6, <2>7, <3>2
    <3>3. CASE d # c
      <4>1. req'[d] = req[d] /\ Waits(d) /\ req[d].segment \in Segments
        BY <1>0, <2>7, <3>1, <3>3, CallerParts DEF Waits
      <4>2. <<req[d].segment, req[d].gen>> # j BY <2>2, <2>8, <3>3, <4>1
      <4>3. req[d].segment # k BY <2>5, <2>6, <3>1, <4>1, <4>2
      <4>4. seg'[req[d].segment] = seg[req[d].segment] BY <2>6, <4>1, <4>3
      <4>. QED BY <1>0, <3>1, <4>1, <4>4 DEF WantedInv, Present
    <3>. QED BY <3>2, <3>3
  <2>. QED BY <2>1, <2>9, <2>10
<1>. QED BY <1>1, <1>2, <1>3, <1>4 DEF Ensure

LEMMA StillInv ==
    ASSUME RunsInv, UNCHANGED <<seg, run, closed, file, undercut>>
    PROVE  RunsInv'
BY DEF RunsInv, OwnedInv, BornInv, BusyInv, CachedInv, DoneIsClosedOnce, Worked, Alive, Present, Running

LEMMA CallerInv ==
    ASSUME IInv, NEW c \in Callers,
           \/ \E k \in Segments, p \in {Balanced, Playback} : Request(c, k, p)
           \/ WarmStarts(c) \/ Wakes(c) \/ BlockedTimesOut(c) \/ Abandons(c)
    PROVE  RunsInv' /\ AskedInv' /\ WantedInv'
<1>0. Typed /\ RunsInv /\ AskedInv /\ WantedInv BY DEF IInv, RunsInv
<1>1. UNCHANGED <<seg, run, closed, file, undercut>>
  BY DEF Request, WarmStarts, Wakes, BlockedTimesOut, Abandons, ReqOnly
<1>2. \E r : r.at # "wait" /\ req' = [req EXCEPT ![c] = r]
  <2>1. ASSUME NEW k \in Segments, NEW p \in {Balanced, Playback}, Request(c, k, p)
        PROVE  \E r : r.at # "wait" /\ req' = [req EXCEPT ![c] = r]
    BY <2>1 DEF Request
  <2>2. CASE WarmStarts(c) BY <2>2 DEF WarmStarts
  <2>3. CASE Wakes(c)
    <3>1. [req[c] EXCEPT !.at = "ensure", !.gen = 0].at # "wait"
      BY <1>0, CallerParts DEF RequestType
    <3>2. CASE req[c].at = "blocked" BY <2>3, <3>1, <3>2 DEF Wakes
    <3>3. CASE req[c].at # "blocked" BY <1>0, <2>3, <3>3, AfterWaitTyped DEF Wakes
    <3>. QED BY <3>2, <3>3
  <2>4. CASE BlockedTimesOut(c) \/ Abandons(c)
    BY <1>0, <2>4, AfterWaitTyped DEF BlockedTimesOut, Abandons
  <2>. QED BY <2>1, <2>2, <2>3, <2>4
<1>3. NobodyNew BY <1>0, <1>2 DEF NobodyNew, Typed, Waits
<1>4. RunsGoOn BY <1>1 DEF RunsGoOn
<1>5. \A k \in Segments : Unmoved(k) BY <1>1 DEF Unmoved, Present
<1>. QED BY <1>0, <1>1, <1>3, <1>4, <1>5, StillInv, AskedKeeps, WantedKeeps

LEMMA SessionInv ==
    ASSUME IInv, \/ \E s \in Sessions : SessionStop(s)
                 \/ \E c \in Callers : WarmEnds(c)
    PROVE  RunsInv' /\ AskedInv' /\ WantedInv'
<1>0. Typed /\ RunsInv /\ AskedInv /\ WantedInv BY DEF IInv, RunsInv
<1>1. \A c \in Callers : LET r == [req[c] EXCEPT !.left = TRUE] IN
          r.at = req[c].at /\ r.segment = req[c].segment /\ r.gen = req[c].gen /\ r.left
  BY <1>0, CallerParts DEF RequestType
<1>2. ASSUME NEW s \in Sessions, SessionStop(s) PROVE RunsInv' /\ AskedInv' /\ WantedInv'
  <2>1. StopSession(s) /\ UNCHANGED <<run, closed, file>> BY <1>2 DEF SessionStop
  <2>2. \A c \in Callers : req'[c].at = "wait" =>
            /\ Waits(c) /\ req'[c].segment = req[c].segment /\ req'[c].gen = req[c].gen
            /\ (req[c].left \/ c[1] = s) => req'[c].left
    BY <1>1, <1>2 DEF SessionStop, Waits
  <2>. QED BY <1>0, <2>1, <2>2, StopInv
<1>3. ASSUME NEW d \in Callers, WarmEnds(d) PROVE RunsInv' /\ AskedInv' /\ WantedInv'
  <2>0. PICK s \in Sessions : s = d[1] BY <1>0, CallerParts
  <2>1. StopSession(s) /\ UNCHANGED <<run, closed, file>> BY <1>3, <2>0 DEF WarmEnds
  <2>2. \A c \in Callers : req'[c].at = "wait" =>
            /\ Waits(c) /\ req'[c].segment = req[c].segment /\ req'[c].gen = req[c].gen
            /\ (req[c].left \/ c[1] = s) => req'[c].left
    BY <1>1, <1>3, <2>0 DEF WarmEnds, Waits, Unasked
  <2>. QED BY <1>0, <2>1, <2>2, StopInv
<1>. QED BY <1>2, <1>3

LEMMA RunInv ==
    ASSUME IInv, NEW j \in Jobs, RunStep(j)
    PROVE  RunsInv' /\ AskedInv' /\ WantedInv'
<1>. PICK k \in Segments : k = j[1] OBVIOUS
<1>0. Typed /\ RunsInv /\ AskedInv /\ WantedInv BY DEF IInv, RunsInv
<1>1. UNCHANGED <<req, undercut>>
  BY DEF RunStep, StartRun, ClaimHead, GivesUp, TakesSlot, ClaimCancelled, TranscodeEnds, Finish, RunKeeps
<1>2. CASE Finish(j)
  <2>1. RunsInv' BY <1>0, <1>2, FinishInv
  <2>2. NobodyNew BY <1>1 DEF NobodyNew, Waits
  <2>3. RunsGoOn BY <1>0, <1>2 DEF RunsGoOn, Finish, To, Typed
  <2>4. \A l \in Segments : Unmoved(l)
    <3>1. CASE ~Present(k) \/ seg[k].doomed BY <1>0, <1>2, <3>1 DEF Finish, Unmoved, Typed, Present
    <3>2. CASE Present(k) /\ ~seg[k].doomed
      <4>. DEFINE e == [seg[k] EXCEPT !.queued = FALSE, !.claiming = FALSE, !.transcoding = FALSE,
                                      !.cancel = FALSE, !.priority = 0, !.owner = ""]
      <4>1. seg' = [seg EXCEPT ![k] = e] BY <1>2, <3>2 DEF Finish
      <4>2. seg[k] \in Entry BY <1>0, <3>2 DEF Typed, Present
      <4>3. e.gen = seg[k].gen /\ e.sessions = seg[k].sessions /\ e.doomed = seg[k].doomed
        BY <4>2 DEF Entry
      <4>. HIDE DEF e
      <4>. QED BY <1>0, <3>2, <4>1, <4>3 DEF Unmoved, Typed, Present
    <3>. QED BY <3>1, <3>2
  <2>. QED BY <1>0, <2>1, <2>2, <2>3, <2>4, AskedKeeps, WantedKeeps
<1>3. CASE ~Finish(j)
  <2>1. PICK r : run' = [run EXCEPT ![j] = r] /\ r.at \notin {"none", "ended"}
    <3>1. CASE ClaimHead(j)
      <4>1. run[j] \in [at : Phases, took : 0 .. MaxRuns] BY <1>0 DEF Typed
      <4>2. run' = [run EXCEPT ![j] = [run[j] EXCEPT !.at = "claim", !.took = seg[k].gen]]
        BY <3>1 DEF ClaimHead
      <4>3. [run[j] EXCEPT !.at = "claim", !.took = seg[k].gen].at = "claim" BY <4>1
      <4>. QED BY <4>2, <4>3
    <3>2. CASE ~ClaimHead(j)
      BY <1>3, <3>2 DEF RunStep, StartRun, GivesUp, TakesSlot, ClaimCancelled, TranscodeEnds, To
    <3>. QED BY <3>1, <3>2
  <2>2. Alive(j) /\ UNCHANGED closed
    BY <1>3 DEF RunStep, StartRun, ClaimHead, GivesUp, TakesSlot, ClaimCancelled, TranscodeEnds, Alive
  <2>3. file \subseteq file'
    BY <1>3 DEF RunStep, StartRun, ClaimHead, GivesUp, TakesSlot, ClaimCancelled, TranscodeEnds
  <2>4. \/ UNCHANGED seg
        \/ \E e : /\ Present(k) /\ seg' = [seg EXCEPT ![k] = e] /\ e.gen = seg[k].gen
                  /\ e.sessions = seg[k].sessions /\ e.doomed = seg[k].doomed /\ (InLine(seg[k]) => InLine(e))
    <3>1. Present(k) => seg[k] \in Entry BY <1>0 DEF Typed, Present
    <3>2. CASE ClaimHead(j)
      <4>1. Present(k) BY <3>2 DEF ClaimHead, QueueHead, Head1, Waiting, Queued
      <4>. DEFINE e == [seg[k] EXCEPT !.claiming = TRUE]
      <4>2. seg' = [seg EXCEPT ![k] = e] BY <3>2 DEF ClaimHead
      <4>3. /\ e.gen = seg[k].gen /\ e.sessions = seg[k].sessions /\ e.doomed = seg[k].doomed
            /\ (InLine(seg[k]) => InLine(e))
        BY <3>1, <4>1 DEF Entry, InLine
      <4>. HIDE DEF e
      <4>. QED BY <4>1, <4>2, <4>3
    <3>3. CASE TakesSlot(j) /\ Present(k)
      <4>. DEFINE e == [seg[k] EXCEPT !.queued = FALSE, !.claiming = FALSE, !.transcoding = TRUE]
      <4>2. seg' = [seg EXCEPT ![k] = e] BY <3>3 DEF TakesSlot
      <4>3. /\ e.gen = seg[k].gen /\ e.sessions = seg[k].sessions /\ e.doomed = seg[k].doomed /\ InLine(e)
        BY <3>1, <3>3 DEF Entry, InLine
      <4>. HIDE DEF e
      <4>. QED BY <3>3, <4>2, <4>3
    <3>4. CASE ClaimCancelled(j) /\ Present(k)
      <4>. DEFINE e == [seg[k] EXCEPT !.claiming = FALSE]
      <4>2. UNCHANGED seg \/ seg' = [seg EXCEPT ![k] = e] BY <3>4 DEF ClaimCancelled
      <4>3. /\ e.gen = seg[k].gen /\ e.sessions = seg[k].sessions /\ e.doomed = seg[k].doomed
            /\ (InLine(seg[k]) => InLine(e))
        BY <3>1, <3>4 DEF Entry, InLine
      <4>. HIDE DEF e
      <4>. QED BY <3>4, <4>2, <4>3
    <3>5. (TakesSlot(j) \/ ClaimCancelled(j)) /\ ~Present(k) => UNCHANGED seg
      BY DEF TakesSlot, ClaimCancelled
    <3>6. StartRun(j) \/ GivesUp(j) \/ TranscodeEnds(j) => UNCHANGED seg
      BY DEF StartRun, GivesUp, TranscodeEnds
    <3>. QED BY <1>3, <3>2, <3>3, <3>4, <3>5, <3>6 DEF RunStep
  <2>5. \A l \in Segments :
            \/ seg'[l] = seg[l]
            \/ /\ l = k /\ Present(k) /\ seg'[k].gen = seg[k].gen /\ seg'[k].sessions = seg[k].sessions
               /\ seg'[k].doomed = seg[k].doomed /\ (InLine(seg[k]) => InLine(seg'[k]))
    BY <1>0, <2>4 DEF Typed
  <2>6. Present(k) => seg[k].gen \in 0 .. MaxRuns BY <1>0, EntryGen DEF Typed, Present
  <2>7. RunsInv'
    <3>1. \A l \in Segments : seg'[l] = seg[l] \/ (l = j[1] /\ Present(l) /\ seg'[l] # NoEntry
              /\ seg'[l].gen = seg[l].gen /\ (InLine(seg[l]) => InLine(seg'[l]) \/ l \in file'))
      BY <2>5, <2>6, NumberedIsSome
    <3>. QED BY <1>0, <1>1, <2>1, <2>2, <2>3, <3>1, RunMoves
  <2>8. NobodyNew BY <1>1 DEF NobodyNew, Waits
  <2>9. RunsGoOn BY <1>0, <2>1 DEF RunsGoOn, Typed
  <2>10. \A l \in Segments : Unmoved(l) BY <2>5 DEF Unmoved, Present
  <2>. QED BY <1>0, <2>7, <2>8, <2>9, <2>10, AskedKeeps, WantedKeeps
<1>. QED BY <1>2, <1>3

LEMMA OthersMove ==
    ASSUME Typed, SetPause \/ AssetDeleted \/ PurgeBegins \/ PurgeEnds \/ \E k \in Segments : Sweep(k)
    PROVE  \A k \in Segments : seg'[k] = seg[k] \/ (seg'[k] = NoEntry /\ (k \in undercut' \/ ~Worked(k)))
<1>1. CASE UNCHANGED seg BY <1>1
<1>2. CASE seg' = [k \in Segments |-> NoEntry] /\ Undercut(Segments)
  BY <1>2 DEF Undercut, Worked
<1>3. ASSUME NEW k \in Segments, seg' = [seg EXCEPT ![k] = NoEntry], Undercut({k})
      PROVE  \A l \in Segments : seg'[l] = seg[l] \/ (seg'[l] = NoEntry /\ (l \in undercut' \/ ~Worked(l)))
  BY <1>3 DEF Undercut, Worked, Typed
<1>. QED BY <1>1, <1>2, <1>3 DEF SetPause, AssetDeleted, PurgeBegins, PurgeEnds, Sweep

LEMMA OthersInv ==
    ASSUME IInv, SetPause \/ AssetDeleted \/ PurgeBegins \/ PurgeEnds \/ \E k \in Segments : Sweep(k)
    PROVE  RunsInv' /\ AskedInv' /\ WantedInv'
<1>0. Typed /\ RunsInv /\ AskedInv /\ WantedInv BY DEF IInv, RunsInv
<1>1. UNCHANGED <<run, closed>> /\ undercut \subseteq undercut'
  BY DEF SetPause, AssetDeleted, PurgeBegins, PurgeEnds, Sweep, EnvKeeps, Undercut
<1>2. NobodyNew
  <2>1. \A c \in Callers : LET r == [req[c] EXCEPT !.left = TRUE] IN
          r.at = req[c].at /\ r.segment = req[c].segment /\ r.gen = req[c].gen /\ r.left
    BY <1>0, CallerParts DEF RequestType
  <2>2. CASE SetPause \/ PurgeBegins
    BY <2>1, <2>2 DEF SetPause, PurgeBegins, NobodyNew, Waits
  <2>3. CASE ~(SetPause \/ PurgeBegins)
    BY <2>3 DEF AssetDeleted, PurgeEnds, Sweep, NobodyNew, Waits
  <2>. QED BY <2>2, <2>3
<1>3. \A k \in Segments : seg'[k] = seg[k] \/ (seg'[k] = NoEntry /\ (k \in undercut' \/ ~Worked(k)))
  BY <1>0, OthersMove
<1>4. \A k \in file : k \in file' \/ ~Worked(k) \/ seg'[k] = NoEntry
  <2>1. CASE UNCHANGED file BY <2>1
  <2>2. CASE PurgeEnds BY <1>0, <2>2 DEF PurgeEnds, Typed
  <2>3. ASSUME NEW k \in Segments, Sweep(k) PROVE \A l \in file : l \in file' \/ ~Worked(l) \/ seg'[l] = NoEntry
    BY <1>0, <2>3 DEF Sweep, Worked, Typed
  <2>. QED BY <2>1, <2>2, <2>3 DEF SetPause, AssetDeleted, PurgeBegins
<1>5. \A k \in Segments : Dropped(k) \/ Kept(k)
  <2>1. ASSUME NEW k \in Segments PROVE Dropped(k) \/ Kept(k)
    <3>1. CASE seg'[k] = seg[k] /\ Present(k)
      <4>1. InLine(seg[k]) => InLine(seg'[k]) BY <3>1
      <4>. QED BY <3>1, <4>1 DEF Kept, Present
    <3>2. CASE seg'[k] = seg[k] /\ ~Present(k)
      <4>1. k \notin undercut => ~Worked(k) BY <1>0, <3>2 DEF RunsInv, OwnedInv, Worked
      <4>. QED BY <1>1, <3>2, <4>1 DEF Dropped, Present
    <3>. QED BY <1>3, <3>1, <3>2 DEF Dropped
  <2>. QED BY <2>1
<1>6. RunsInv' BY <1>0, <1>1, <1>4, <1>5, EntriesMove
<1>7. RunsGoOn BY <1>1 DEF RunsGoOn
<1>8. \A k \in Segments : Unmoved(k) BY <1>3 DEF Unmoved, Present
<1>. QED BY <1>0, <1>2, <1>6, <1>7, <1>8, AskedKeeps, WantedKeeps

-----------------------------------------------------------------------------
(* The queue.  TurnInv: as long as no entry went away under its goroutine, *)
(* who waits for a slot has a queued entry, claimed only by itself, and no *)
(* file yet; SlotsInv: slots belong to who transcodes or is about to give  *)
(* the slot back; LineInv: the queued segments stand in one line.          *)
Early == {"start", "poll", "claim", "transcode"}
TurnInv == \A k \in Segments \ undercut, g \in Gens : run[<<k, g>>].at \in Early =>
    /\ k \notin file
    /\ run[<<k, g>>].at # "transcode" => seg[k].queued /\ seg[k].cancel
    /\ run[<<k, g>>].at \in {"start", "poll"} => ~seg[k].claiming
    /\ run[<<k, g>>].at = "claim" => run[<<k, g>>].took = g
SlotsInv == \A j \in slots : j \in Jobs /\ run[j].at \in {"transcode", "finish"}
LineInv ==
    /\ \A k, l \in Queued : k # l => Ahead(k, l) \/ Ahead(l, k)
    /\ \A k, l, m \in Queued : Ahead(k, l) /\ Ahead(l, m) => Ahead(k, m)
    /\ \A k \in Queued : ~Ahead(k, k)

QueueInv == TurnInv /\ SlotsInv /\ LineInv

\* What a step may do to an entry as far as its turn is concerned.
SameFlags(k) ==
    /\ Present(k) /\ seg'[k] # NoEntry
    /\ seg'[k].queued = seg[k].queued /\ seg'[k].claiming = seg[k].claiming /\ seg'[k].cancel = seg[k].cancel
Quiet(k) ==
    \/ seg'[k] = seg[k] \/ SameFlags(k)
    \/ seg'[k] = NoEntry /\ (k \in undercut' \/ ~Worked(k))
    \/ k \in file /\ (seg'[k] = NoEntry \/ ~seg'[k].queued)

LEMMA EarlyIsAlive == \A j : run[j].at \in Early => Alive(j)
BY DEF Early, Alive

LEMMA QuietTurns ==
    ASSUME QueueInv, UNCHANGED <<run, slots>>, undercut \subseteq undercut', file' \subseteq file,
           \A k \in Segments : Quiet(k)
    PROVE  TurnInv' /\ SlotsInv' /\ Queued' \subseteq Queued
<1>1. TurnInv'
  <2>1. SUFFICES ASSUME NEW k \in Segments, k \notin undercut', NEW g \in Gens, run[<<k, g>>].at \in Early
                 PROVE  /\ k \notin file'
                        /\ run[<<k, g>>].at # "transcode" => seg'[k].queued /\ seg'[k].cancel
                        /\ run[<<k, g>>].at \in {"start", "poll"} => ~seg'[k].claiming
                        /\ run[<<k, g>>].at = "claim" => run[<<k, g>>].took = g
    BY DEF TurnInv
  <2>2. /\ k \notin file
        /\ run[<<k, g>>].at # "transcode" => seg[k].queued /\ seg[k].cancel
        /\ run[<<k, g>>].at \in {"start", "poll"} => ~seg[k].claiming
        /\ run[<<k, g>>].at = "claim" => run[<<k, g>>].took = g
    BY <2>1 DEF QueueInv, TurnInv
  <2>3. Worked(k) BY <2>1, EarlyIsAlive DEF Worked
  <2>4. seg'[k] = seg[k] \/ SameFlags(k) BY <2>1, <2>2, <2>3 DEF Quiet
  <2>. QED BY <2>2, <2>4 DEF SameFlags
<1>2. SlotsInv' BY DEF QueueInv, SlotsInv
<1>3. Queued' \subseteq Queued
  <2>1. SUFFICES ASSUME NEW k \in Segments, seg'[k] # NoEntry, seg'[k].queued, ~(k \in Queued) PROVE FALSE
    BY DEF Queued, Present
  <2>. QED BY <2>1 DEF Quiet, SameFlags, Queued, Present
<1>. QED BY <1>1, <1>2, <1>3

LEMMA LineKeeps == ASSUME LineInv, UNCHANGED line, Queued' \subseteq Queued PROVE LineInv'
BY DEF LineInv, Ahead

LEMMA LineShrinks ==
    ASSUME LineInv, NEW k, line' = Without(k), Queued' \subseteq Queued \ {k} PROVE LineInv'
<1>1. \A l, m \in Queued' : Ahead(l, m)' <=> Ahead(l, m) BY DEF Ahead, Without
<1>. QED BY <1>1 DEF LineInv

LEMMA LineGrows ==
    ASSUME LineInv, NEW k \in Segments, line' = ToEnd(k), Queued' \subseteq Queued \cup {k} PROVE LineInv'
<1>1. \A l, m \in Queued \ {k} : Ahead(l, m)' <=> Ahead(l, m) BY DEF Ahead, ToEnd, Without
<1>2. \A l \in Queued \ {k} : Ahead(l, k)' /\ ~Ahead(k, l)' BY DEF Ahead, ToEnd, Without
<1>3. ~Ahead(k, k)' BY DEF Ahead, ToEnd, Without
<1>. QED BY <1>1, <1>2, <1>3 DEF LineInv

LEMMA EnsureQueue ==
    ASSUME IInv, QueueInv, NEW c \in Callers, Ensure(c)
    PROVE  QueueInv'
<1>. PICK k \in Segments : k = req[c].segment BY CallerParts DEF IInv
<1>0. Typed /\ LineInv /\ undercut' = undercut /\ file' = file BY DEF IInv, QueueInv, Ensure
<1>1. CASE EnsureBlocked(c)
  <2>1. UNCHANGED <<seg, line, run, slots>> BY <1>1 DEF EnsureBlocked, KeepsRuns
  <2>2. TurnInv' /\ SlotsInv' /\ Queued' \subseteq Queued BY <1>0, <2>1, QuietTurns DEF Quiet
  <2>. QED BY <1>0, <2>1, <2>2, LineKeeps DEF QueueInv
<1>2. CASE EnsureCached(c)
  <2>1. UNCHANGED <<line, run, slots>> /\ k \in file BY <1>2 DEF EnsureCached, KeepsRuns
  <2>2. ~seg'[k].queued
    <3>1. CASE Present(k)
      <4>. DEFINE e == [seg[k] EXCEPT !.sessions = Join(k, c[1]), !.queued = FALSE, !.transcoding = FALSE]
      <4>1. seg' = [seg EXCEPT ![k] = e] BY <1>2, <3>1 DEF EnsureCached
      <4>2. seg[k] \in Entry BY <1>0, <3>1 DEF Typed, Present
      <4>3. ~e.queued BY <4>2 DEF Entry
      <4>. HIDE DEF e
      <4>. QED BY <1>0, <4>1, <4>3 DEF Typed
    <3>2. CASE ~Present(k)
      <4>. DEFINE e == [gen |-> 0, sessions |-> {c[1]}, owner |-> "", queued |-> FALSE, claiming |-> FALSE,
                        transcoding |-> FALSE, priority |-> 0, doomed |-> FALSE, cancel |-> FALSE]
      <4>1. seg' = [seg EXCEPT ![k] = e] BY <1>2, <3>2 DEF EnsureCached
      <4>2. ~e.queued OBVIOUS
      <4>. HIDE DEF e
      <4>. QED BY <1>0, <4>1, <4>2 DEF Typed
    <3>. QED BY <3>1, <3>2
  <2>3. \A l \in Segments : l # k => seg'[l] = seg[l] BY <1>0, <1>2 DEF EnsureCached, Typed
  <2>4. \A l \in Segments : Quiet(l) BY <2>1, <2>2, <2>3 DEF Quiet
  <2>5. TurnInv' /\ SlotsInv' /\ Queued' \subseteq Queued BY <1>0, <2>1, <2>4, QuietTurns
  <2>. QED BY <1>0, <2>1, <2>5, LineKeeps DEF QueueInv
<1>3. CASE EnsureJoins(c)
  <2>1. UNCHANGED <<run, slots>> /\ line' \in {line, ToEnd(k)} BY <1>3 DEF EnsureJoins, KeepsRuns
  <2>2. Present(k) BY <1>3 DEF EnsureJoins, Running
  <2>3. seg[k] \in Entry BY <1>0, <2>2 DEF Typed, Present
  <2>4. PICK p \in 0 .. Playback, w \in Sessions \cup {""} :
            seg' = [seg EXCEPT ![k] = [seg[k] EXCEPT !.sessions = Join(k, c[1]), !.priority = p, !.owner = w]]
    BY <1>0, <1>3, JoinsShape
  <2>. DEFINE e == [seg[k] EXCEPT !.sessions = Join(k, c[1]), !.priority = p, !.owner = w]
  <2>5. e.gen = seg[k].gen /\ e.queued = seg[k].queued /\ e.claiming = seg[k].claiming /\ e.cancel = seg[k].cancel
    BY <2>3 DEF Entry
  <2>6. e # NoEntry BY <2>3, <2>5, EntryGen, NumberedIsSome
  <2>7. seg'[k] = e /\ \A l \in Segments : l # k => seg'[l] = seg[l] BY <1>0, <2>4 DEF Typed
  <2>. HIDE DEF e
  <2>8. \A l \in Segments : Quiet(l) BY <2>2, <2>5, <2>6, <2>7 DEF Quiet, SameFlags
  <2>9. TurnInv' /\ SlotsInv' /\ Queued' \subseteq Queued BY <1>0, <2>1, <2>8, QuietTurns
  <2>10. LineInv' BY <1>0, <2>1, <2>9, LineKeeps, LineGrows
  <2>. QED BY <2>9, <2>10 DEF QueueInv
<1>4. ASSUME NEW g \in Gens, EnsureStarts(c, g) PROVE QueueInv'
  <2>. DEFINE j == <<k, g>>
              e == [gen |-> g, sessions |-> {c[1]}, owner |-> c[1], queued |-> TRUE, claiming |-> FALSE,
           transcoding |-> FALSE, priority |-> req[c].priority, doomed |-> FALSE, cancel |-> TRUE]
  <2>1. /\ j \in Jobs /\ run[j].at = "none" /\ run' = [run EXCEPT ![j].at = "start"]
        /\ k \notin file /\ line' = ToEnd(k) /\ slots' = slots /\ ~Running(k)
    BY <1>4 DEF EnsureStarts
  <2>2. seg' = [seg EXCEPT ![k] = e] BY <1>4 DEF EnsureStarts
  <2>3. e.queued /\ e.cancel /\ ~e.claiming OBVIOUS
  <2>. HIDE DEF e
  <2>4. seg'[k] = e /\ \A l \in Segments : l # k => seg'[l] = seg[l] BY <1>0, <2>2 DEF Typed
  <2>5. run'[j].at = "start" /\ \A i \in Jobs : i # j => run'[i] = run[i] BY <1>0, <2>1 DEF Typed
  <2>6. k \notin undercut => ~Worked(k)
    BY <2>1 DEF IInv, OwnedInv, Worked, Running
  <2>7. TurnInv'
    <3>1. SUFFICES ASSUME NEW l \in Segments, l \notin undercut, NEW h \in Gens, run'[<<l, h>>].at \in Early
                   PROVE  /\ l \notin file
                          /\ run'[<<l, h>>].at # "transcode" => seg'[l].queued /\ seg'[l].cancel
                          /\ run'[<<l, h>>].at \in {"start", "poll"} => ~seg'[l].claiming
                          /\ run'[<<l, h>>].at = "claim" => run'[<<l, h>>].took = h
      BY <1>0 DEF TurnInv
    <3>2. CASE <<l, h>> = j BY <2>1, <2>3, <2>4, <2>5, <3>2
    <3>3. CASE <<l, h>> # j
      <4>1. run'[<<l, h>>] = run[<<l, h>>] BY <2>5, <3>3
      <4>2. l # k BY <2>6, <3>1, <4>1, EarlyIsAlive DEF Worked
      <4>3. seg'[l] = seg[l] BY <2>4, <4>2
      <4>. QED BY <3>1, <4>1, <4>3 DEF QueueInv, TurnInv
    <3>. QED BY <3>2, <3>3
  <2>8. SlotsInv' BY <2>1, <2>5 DEF QueueInv, SlotsInv
  <2>9. Queued' \subseteq Queued \cup {k} BY <2>4 DEF Queued, Present
  <2>. QED BY <1>0, <2>1, <2>7, <2>8, <2>9, LineGrows DEF QueueInv
<1>. QED BY <1>1, <1>2, <1>3, <1>4 DEF Ensure

LEMMA OthersQueue ==
    ASSUME IInv, QueueInv,
           \/ \E c \in Callers : WarmStarts(c) \/ Wakes(c) \/ BlockedTimesOut(c) \/ Abandons(c) \/ WarmEnds(c)
           \/ \E c \in Callers, k \in Segments, p \in {Balanced, Playback} : Request(c, k, p)
           \/ \E s \in Sessions : SessionStop(s)
           \/ SetPause \/ AssetDeleted \/ PurgeBegins \/ PurgeEnds \/ \E k \in Segments : Sweep(k)
           \/ UNCHANGED vars
    PROVE  QueueInv'
<1>0. Typed /\ LineInv BY DEF IInv, QueueInv
<1>1. UNCHANGED <<run, slots, line>> /\ undercut \subseteq undercut' /\ file' \subseteq file
  BY <1>0 DEF Request, WarmStarts, Wakes, BlockedTimesOut, Abandons, ReqOnly, WarmEnds, SessionStop, StopSession, Undercut,
     SetPause, AssetDeleted, PurgeBegins, PurgeEnds, Sweep, EnvKeeps, vars, Typed
<1>2. \A k \in Segments : Quiet(k)
  <2>1. CASE UNCHANGED seg BY <2>1 DEF Quiet
  <2>2. CASE \E s \in Sessions : StopSession(s) BY <1>0, <2>2, StopMoves DEF Quiet, SameFlags
  <2>3. CASE SetPause \/ AssetDeleted \/ PurgeBegins \/ PurgeEnds \/ \E k \in Segments : Sweep(k)
    BY <1>0, <2>3, OthersMove DEF Quiet
  <2>4. ASSUME NEW c \in Callers, WarmEnds(c) PROVE \E s \in Sessions : StopSession(s)
    BY <1>0, <2>4, CallerParts DEF WarmEnds
  <2>. QED BY <2>1, <2>2, <2>3, <2>4
       DEF Request, WarmStarts, Wakes, BlockedTimesOut, Abandons, ReqOnly, SessionStop, vars
<1>3. TurnInv' /\ SlotsInv' /\ Queued' \subseteq Queued BY <1>1, <1>2, QuietTurns
<1>. QED BY <1>0, <1>1, <1>3, LineKeeps DEF QueueInv

LEMMA RunQueue ==
    ASSUME IInv, QueueInv, NEW j \in Jobs, RunStep(j)
    PROVE  QueueInv'
<1>. PICK k \in Segments, g \in Gens : j = <<k, g>> OBVIOUS
<1>00. j[1] = k /\ j[2] = g OBVIOUS
<1>0. Typed /\ LineInv /\ undercut' = undercut
  BY DEF IInv, QueueInv, RunStep, StartRun, ClaimHead, GivesUp, TakesSlot, ClaimCancelled, TranscodeEnds, Finish, RunKeeps
<1>1. Present(k) => seg[k] \in Entry BY <1>0 DEF Typed, Present
<1>2. \A i \in Jobs : i # j => run'[i] = run[i]
  BY <1>0 DEF RunStep, StartRun, ClaimHead, GivesUp, TakesSlot, ClaimCancelled, TranscodeEnds, Finish, To, Typed
<1>3. \A l \in Segments : l # k => seg'[l] = seg[l]
  BY <1>0, <1>00 DEF RunStep, StartRun, ClaimHead, GivesUp, TakesSlot, ClaimCancelled, TranscodeEnds, Finish, Typed
<1>4. file' \ file \subseteq {k} /\ (~TranscodeEnds(j) => file' = file)
  BY <1>00 DEF RunStep, StartRun, ClaimHead, GivesUp, TakesSlot, ClaimCancelled, TranscodeEnds, Finish
<1>5. Alive(j)
  BY DEF RunStep, StartRun, ClaimHead, GivesUp, TakesSlot, ClaimCancelled, TranscodeEnds, Finish, Alive
<1>6. k \notin undercut => Present(k) /\ seg[k].gen = g /\ \A h \in Gens : Alive(<<k, h>>) => h = g
  BY <1>5 DEF IInv, OwnedInv
<1>7. k \in Queued' => k \in Queued /\ ~Finish(j)
  <2>1. SUFFICES ASSUME seg'[k] # NoEntry, seg'[k].queued PROVE Present(k) /\ seg[k].queued /\ ~Finish(j)
    BY DEF Queued, Present
  <2>2. CASE UNCHANGED seg /\ ~Finish(j) BY <2>1, <2>2 DEF Present
  <2>3. CASE ClaimHead(j) BY <1>00, <2>3 DEF ClaimHead, QueueHead, Head1, Waiting, Queued, Present, RunStep, Finish
  <2>4. CASE TakesSlot(j) /\ Present(k)
    <3>. DEFINE e == [seg[k] EXCEPT !.queued = FALSE, !.claiming = FALSE, !.transcoding = TRUE]
    <3>1. seg' = [seg EXCEPT ![k] = e] BY <1>00, <2>4 DEF TakesSlot
    <3>2. ~e.queued BY <1>1, <2>4 DEF Entry
    <3>. HIDE DEF e
    <3>. QED BY <1>0, <2>1, <3>1, <3>2 DEF Typed
  <2>5. CASE ClaimCancelled(j) /\ Present(k)
    <3>. DEFINE e == [seg[k] EXCEPT !.claiming = FALSE]
    <3>1. seg' \in {seg, [seg EXCEPT ![k] = e]} BY <1>00, <2>5 DEF ClaimCancelled
    <3>2. e.queued = seg[k].queued BY <1>1, <2>5 DEF Entry
    <3>3. ~Finish(j) BY <2>5 DEF ClaimCancelled, Finish
    <3>. HIDE DEF e
    <3>. QED BY <1>0, <2>1, <2>5, <3>1, <3>2, <3>3 DEF Typed
  <2>6. CASE Finish(j) /\ Present(k)
    <3>. DEFINE e == [seg[k] EXCEPT !.queued = FALSE, !.claiming = FALSE, !.transcoding = FALSE,
                                    !.cancel = FALSE, !.priority = 0, !.owner = ""]
    <3>1. seg' \in {[seg EXCEPT ![k] = NoEntry], [seg EXCEPT ![k] = e]} BY <1>00, <2>6 DEF Finish
    <3>2. ~e.queued BY <1>1, <2>6 DEF Entry
    <3>. HIDE DEF e
    <3>. QED BY <1>0, <2>1, <3>1, <3>2 DEF Typed
  <2>7. ~Present(k) /\ (TakesSlot(j) \/ ClaimCancelled(j) \/ Finish(j)) => seg' = seg
    BY <1>00 DEF TakesSlot, ClaimCancelled, Finish
  <2>8. StartRun(j) \/ GivesUp(j) \/ TranscodeEnds(j) => seg' = seg /\ ~Finish(j)
    BY DEF StartRun, GivesUp, TranscodeEnds, Finish
  <2>. QED BY <2>1, <2>2, <2>3, <2>4, <2>5, <2>6, <2>7, <2>8 DEF RunStep, Present
<1>8. TurnInv'
  <2>1. SUFFICES ASSUME NEW l \in Segments, l \notin undercut, NEW h \in Gens, run'[<<l, h>>].at \in Early
                 PROVE  /\ l \notin file'
                        /\ run'[<<l, h>>].at # "transcode" => seg'[l].queued /\ seg'[l].cancel
                        /\ run'[<<l, h>>].at \in {"start", "poll"} => ~seg'[l].claiming
                        /\ run'[<<l, h>>].at = "claim" => run'[<<l, h>>].took = h
    BY <1>0 DEF TurnInv
  <2>2. CASE l # k
    <3>1. run'[<<l, h>>] = run[<<l, h>>] /\ seg'[l] = seg[l] /\ (l \in file' => l \in file)
      BY <1>2, <1>3, <1>4, <2>2
    <3>. QED BY <2>1, <3>1 DEF QueueInv, TurnInv
  <2>3. CASE l = k
    <3>0. h = g
      <4>1. ASSUME h # g PROVE FALSE
        <5>1. run'[<<l, h>>] = run[<<l, h>>] BY <1>2, <2>3, <4>1
        <5>2. Alive(<<k, h>>) BY <2>1, <2>3, <5>1, EarlyIsAlive
        <5>. QED BY <1>6, <2>1, <2>3, <4>1, <5>2
      <4>. QED BY <4>1
    <3>1. <<l, h>> = j /\ k \notin undercut BY <2>1, <2>3, <3>0
    <3>2. run[j].at \in Early =>
             /\ k \notin file
             /\ run[j].at # "transcode" => seg[k].queued /\ seg[k].cancel
             /\ run[j].at \in {"start", "poll"} => ~seg[k].claiming
      BY <3>1 DEF QueueInv, TurnInv
    <3>3. CASE StartRun(j)
      <4>1. run[j].at = "start" /\ run'[j].at \in {"poll", "finish"} /\ seg' = seg /\ file' = file
        BY <1>0, <3>3 DEF StartRun, To, Typed
      <4>. QED BY <2>1, <2>3, <3>1, <3>2, <4>1 DEF Early
    <3>4. CASE ClaimHead(j)
      <4>. DEFINE e == [seg[k] EXCEPT !.claiming = TRUE]
      <4>1. run[j].at = "poll" /\ file' = file /\ seg' = [seg EXCEPT ![k] = e] BY <1>00, <3>4 DEF ClaimHead
      <4>2. run'[j].at = "claim" /\ run'[j].took = g
        <5>1. run' = [run EXCEPT ![j] = [run[j] EXCEPT !.at = "claim", !.took = seg[k].gen]]
          BY <1>00, <3>4 DEF ClaimHead
        <5>2. run[j] \in [at : Phases, took : 0 .. MaxRuns] BY <1>0 DEF Typed
        <5>. QED BY <1>0, <1>6, <3>1, <5>1, <5>2 DEF Typed
      <4>3. e.queued = seg[k].queued /\ e.cancel = seg[k].cancel BY <1>1, <1>6, <3>1 DEF Entry
      <4>. HIDE DEF e
      <4>4. seg'[k] = e BY <1>0, <4>1 DEF Typed
      <4>. QED BY <2>3, <3>0, <3>1, <3>2, <4>1, <4>2, <4>3, <4>4 DEF Early
    <3>5. CASE TakesSlot(j)
      <4>1. run[j].at = "claim" /\ run'[j].at = "transcode" /\ file' = file
        BY <1>0, <3>5 DEF TakesSlot, To, Typed
      <4>. QED BY <2>3, <3>1, <3>2, <4>1 DEF Early
    <3>6. CASE GivesUp(j) \/ ClaimCancelled(j) \/ TranscodeEnds(j) \/ Finish(j)
      <4>1. run'[j].at \notin Early
        BY <1>0, <3>6 DEF GivesUp, ClaimCancelled, TranscodeEnds, Finish, To, Typed, Early
      <4>. QED BY <2>1, <3>1, <4>1
    <3>. QED BY <3>3, <3>4, <3>5, <3>6 DEF RunStep
  <2>. QED BY <2>2, <2>3
<1>9. SlotsInv'
  <2>1. SUFFICES ASSUME NEW i \in slots' PROVE i \in Jobs /\ run'[i].at \in {"transcode", "finish"}
    BY DEF SlotsInv
  <2>2. CASE i # j
    <3>1. i \in slots
      BY <2>1, <2>2 DEF RunStep, StartRun, ClaimHead, GivesUp, TakesSlot, ClaimCancelled, TranscodeEnds, Finish, SlotReleased
    <3>. QED BY <1>2, <2>2, <3>1 DEF QueueInv, SlotsInv
  <2>3. CASE i = j /\ TakesSlot(j) BY <1>0, <2>3 DEF TakesSlot, To, Typed
  <2>4. CASE i = j /\ TranscodeEnds(j) BY <1>0, <2>4 DEF TranscodeEnds, To, Typed
  <2>5. CASE i = j /\ Finish(j) BY <2>1, <2>5 DEF Finish, SlotReleased
  <2>6. CASE i = j /\ (StartRun(j) \/ ClaimHead(j) \/ GivesUp(j) \/ ClaimCancelled(j))
    <3>1. j \in slots /\ run[j].at \in {"start", "poll", "claim"}
      BY <2>1, <2>6 DEF StartRun, ClaimHead, GivesUp, ClaimCancelled
    <3>. QED BY <3>1 DEF QueueInv, SlotsInv
  <2>. QED BY <2>2, <2>3, <2>4, <2>5, <2>6 DEF RunStep
<1>10. LineInv'
  <2>1. Queued' \subseteq Queued BY <1>3, <1>7 DEF Queued, Present
  <2>2. CASE Finish(j)
    <3>1. line' = Without(k) BY <1>00, <2>2 DEF Finish
    <3>2. Queued' \subseteq Queued \ {k} BY <1>7, <2>1, <2>2
    <3>. QED BY <1>0, <3>1, <3>2, LineShrinks
  <2>3. CASE ~Finish(j)
    <3>1. UNCHANGED line
      BY <2>3 DEF RunStep, StartRun, ClaimHead, GivesUp, TakesSlot, ClaimCancelled, TranscodeEnds, QueueKeeps
    <3>. QED BY <1>0, <2>1, <3>1, LineKeeps
  <2>. QED BY <2>2, <2>3
<1>. QED BY <1>8, <1>9, <1>10 DEF QueueInv

LEMMA NextQueueInv == IInv /\ QueueInv /\ [Next]_vars => QueueInv'
<1>. SUFFICES ASSUME IInv, QueueInv, [Next]_vars PROVE QueueInv' OBVIOUS
<1>1. CASE UNCHANGED vars BY <1>1, OthersQueue
<1>2. CASE Next BY <1>2, EnsureQueue, RunQueue, OthersQueue DEF Next, CallerStep
<1>. QED BY <1>1, <1>2

LEMMA InitQueueInv == Init => QueueInv
BY DEF Init, QueueInv, TurnInv, SlotsInv, LineInv, Early, Queued, Present

\* Numbers have a least one, so every set of queued segments has one that
\* stands before the others, and one of the highest priority.
LEMMA Least == ASSUME NEW S \in SUBSET Nat, S # {} PROVE \E n \in S : \A m \in S : n <= m
<1>1. IsWellFoundedOn(OpToRel(<, Nat), Nat) BY NatLessThanWellFounded
<1>2. PICK n \in S : \A m \in S : <<m, n>> \notin OpToRel(<, Nat) BY <1>1, WFMin
<1>3. ASSUME NEW m \in S PROVE n <= m
  <2>1. m \in Nat /\ n \in Nat OBVIOUS
  <2>2. ~(m < n) BY <1>2, <2>1 DEF OpToRel
  <2>. QED BY <2>1, <2>2
<1>. QED BY <1>3

LEMMA LineHasHead ==
    ASSUME LineInv, NEW ks \in SUBSET Queued, ks # {}
    PROVE  \E k \in ks : k \in Head1(ks)
<1>. DEFINE before(k) == {l \in ks : Ahead(l, k)}
            size(k) == Cardinality(before(k))
            Sizes == {size(k) : k \in ks}
<1>0. ks \subseteq Segments BY DEF Queued
<1>1. IsFiniteSet(ks)
  <2>1. Count \in Nat BY ConstantsAssumption
  <2>2. IsFiniteSet(1 .. Count) BY <2>1, FS_Interval
  <2>. QED BY <1>0, <2>2, FS_Subset
<1>2. ASSUME NEW k \in ks PROVE IsFiniteSet(before(k)) /\ size(k) \in Nat
  <2>1. IsFiniteSet(before(k)) BY <1>1, FS_Subset
  <2>. QED BY <2>1, FS_CardinalityType
<1>3. PICK k \in ks : \A l \in ks : size(k) <= size(l)
  <2>1. Sizes \in SUBSET Nat /\ Sizes # {} BY <1>2
  <2>. HIDE DEF size
  <2>2. PICK n \in Sizes : \A m \in Sizes : n <= m BY <2>1, Least
  <2>. QED BY <2>2
<1>4. ASSUME NEW l \in ks, l # k PROVE Ahead(k, l)
  <2>1. SUFFICES ASSUME Ahead(l, k) PROVE FALSE BY <1>4 DEF LineInv
  <2>2. before(l) \subseteq before(k) /\ l \in before(k) /\ l \notin before(l)
    BY <1>4, <2>1 DEF LineInv
  <2>3. size(l) < size(k)
    <3>1. before(l) # before(k) BY <2>2
    <3>2. size(l) <= size(k) /\ (size(l) = size(k) => before(l) = before(k))
      <4>. HIDE DEF before
      <4>. QED BY <1>2, <2>2, FS_Subset
    <3>. QED BY <1>2, <1>4, <3>1, <3>2
  <2>. QED BY <1>2, <1>3, <1>4, <2>3
<1>. QED BY <1>4 DEF Head1

LEMMA QueueHasHead ==
    ASSUME Typed, LineInv, NEW w \in Waiting
    PROVE  \E k \in Waiting : k \in QueueHead
<1>0. \A k \in Waiting : k \in Queued /\ seg[k].priority \in 0 .. Playback
  BY DEF Waiting, Queued, Typed, Entry, Present
<1>. DEFINE lack(k) == Playback - seg[k].priority
            Lacks == {lack(k) : k \in Waiting}
<1>1. PICK t \in Waiting : \A l \in Waiting : seg[l].priority <= seg[t].priority
  <2>1. \A k \in Waiting : lack(k) \in Nat BY <1>0 DEF Playback
  <2>2. Lacks \in SUBSET Nat /\ Lacks # {} BY <2>1
  <2>3. PICK n \in Lacks : \A m \in Lacks : n <= m BY <2>2, Least
  <2>4. PICK t \in Waiting : n = lack(t) BY <2>3
  <2>5. \A l \in Waiting : lack(t) <= lack(l) BY <2>3, <2>4
  <2>6. \A l \in Waiting : seg[l].priority <= seg[t].priority BY <1>0, <2>5 DEF Playback
  <2>. QED BY <2>6
<1>. DEFINE top == {k \in Waiting : \A l \in Waiting : seg[l].priority <= seg[k].priority}
            busy == {seg[k].owner : k \in {l \in Segments : Present(l) /\ (seg[l].transcoding \/ seg[l].claiming)}}
            calm == {k \in top : seg[k].owner \notin busy \ {""}}
<1>2. top # {} /\ top \in SUBSET Queued /\ calm \in SUBSET Queued BY <1>0, <1>1
<1>3. top \subseteq Waiting /\ calm \subseteq Waiting OBVIOUS
<1>4. QueueHead = IF calm # {} THEN Head1(calm) ELSE Head1(top) BY DEF QueueHead
<1>. HIDE DEF top, calm
<1>. QED BY <1>2, <1>3, <1>4, LineHasHead

-----------------------------------------------------------------------------
LEMMA InitIInv == Init => IInv
<1>. SUFFICES ASSUME Init PROVE IInv OBVIOUS
<1>1. \A j \in Jobs : ~Alive(j) /\ run[j].at = "none" BY DEF Init, Alive
<1>2. \A k \in Segments : ~Present(k) /\ ~Running(k) BY DEF Init, Present, Running
<1>3. \A c \in Callers : req[c].at = "idle" BY DEF Init, Unasked
<1>4. DoneIsClosedOnce BY <1>1 DEF Init, DoneIsClosedOnce
<1>. QED BY <1>1, <1>2, <1>3, <1>4, InitTyped
         DEF IInv, OwnedInv, BornInv, BusyInv, CachedInv, AskedInv, WantedInv, Waits

LEMMA NextIInv == IInv /\ [Next]_vars => IInv'
<1>. SUFFICES ASSUME IInv, [Next]_vars PROVE IInv' OBVIOUS
<1>1. Typed' BY NextTyped DEF IInv
<1>2. RunsInv' /\ AskedInv' /\ WantedInv'
  <2>1. CASE UNCHANGED vars
    <3>1. RunsInv' BY <2>1, StillInv DEF IInv, RunsInv, vars
    <3>2. AskedInv' /\ WantedInv' BY <2>1 DEF IInv, AskedInv, WantedInv, Waits, Present, vars
    <3>. QED BY <3>1, <3>2
  <2>2. CASE Next
    BY <2>2, EnsureInv, CallerInv, SessionInv, RunInv, OthersInv DEF Next, CallerStep
  <2>. QED BY <2>1, <2>2
<1>. QED BY <1>1, <1>2 DEF IInv, RunsInv

(* The inductive invariant holds for every number of segments, sessions,   *)
(* slots and goroutines.                                                   *)
THEOREM Invariant == Spec => []IInv
<1>. QED BY InitIInv, NextIInv, PTL DEF Spec

(* Two goroutines never write the temporary file of one segment, whatever  *)
(* the number of segments, sessions, slots and goroutines, unless an entry *)
(* was removed under one of them.                                          *)
THEOREM SegmentHasOneWriter == Spec => []OneWriter
<1>1. IInv => OneWriter
  <2>1. SUFFICES ASSUME IInv, NEW k \in Segments, k \notin undercut
                 PROVE  Cardinality({g \in Gens : Alive(<<k, g>>)}) <= 1
    BY DEF OneWriter
  <2>. DEFINE W == {g \in Gens : Alive(<<k, g>>)}
  <2>2. W \subseteq {seg[k].gen} BY <2>1 DEF IInv, OwnedInv
  <2>3. IsFiniteSet({seg[k].gen}) /\ Cardinality({seg[k].gen}) = 1 BY FS_Singleton
  <2>4. Cardinality(W) <= 1 BY <2>2, <2>3, FS_Subset
  <2>. QED BY <2>4
<1>. QED BY <1>1, Invariant, PTL

(* The Done of a runtime is closed exactly when its goroutine has ended,   *)
(* and once: no waiter is left behind, no close of a closed channel.       *)
THEOREM DoneClosesOnce == Spec => []DoneIsClosedOnce
<1>1. IInv => DoneIsClosedOnce BY DEF IInv
<1>. QED BY <1>1, Invariant, PTL

(* However sessions come and go, none of them takes away a segment that    *)
(* another one waits for.                                                  *)
THEOREM WaitersKeepTheirSegment == Spec => []WantedIsNotDoomed
<1>1. IInv => WantedIsNotDoomed BY DEF IInv, WantedInv, WantedIsNotDoomed, Waits
<1>. QED BY <1>1, Invariant, PTL

(* The slot queue is never stuck: whenever somebody waits for a slot, some *)
(* goroutine can go on by itself - one at work, one that has its turn, one *)
(* with a free slot, or one that gives up - whatever the number of         *)
(* segments, sessions and slots, unless an entry went away under one.      *)
THEOREM QueueNeverStuck == Spec => []QueueMoves
<1>1. ASSUME IInv, QueueInv PROVE QueueMoves
  <2>1. SUFFICES ASSUME undercut = {}, NEW i \in Jobs, run[i].at \in {"poll", "claim"},
                        \A j \in Jobs : run[j].at \notin {"start", "transcode", "finish"}
                 PROVE  \E j \in Jobs : \/ run[j].at = "poll" /\ j[1] \in QueueHead
                                        \/ run[j].at = "claim" /\ SlotFree
    BY DEF QueueMoves
  <2>2. SlotFree
    <3>1. slots = {} BY <1>1, <2>1 DEF QueueInv, SlotsInv
    <3>. QED BY <3>1, FS_EmptySet, ConstantsAssumption DEF SlotFree
  <2>3. CASE \E j \in Jobs : run[j].at = "claim" BY <2>2, <2>3
  <2>4. CASE \A j \in Jobs : run[j].at # "claim"
    <3>1. PICK k \in Segments, g \in Gens : i = <<k, g>> OBVIOUS
    <3>2. run[<<k, g>>].at = "poll" BY <2>1, <2>4, <3>1
    <3>3. k \in Waiting
      <4>1. Alive(<<k, g>>) BY <3>2 DEF Alive
      <4>2. Present(k) BY <1>1, <2>1, <4>1 DEF IInv, OwnedInv
      <4>3. seg[k].queued /\ seg[k].cancel /\ ~seg[k].claiming
        BY <1>1, <2>1, <3>2 DEF QueueInv, TurnInv, Early
      <4>. QED BY <4>2, <4>3 DEF Waiting, Queued
    <3>4. PICK h \in Waiting : h \in QueueHead BY <1>1, <3>3, QueueHasHead DEF IInv, QueueInv
    <3>5. h \in Segments /\ Running(h) BY DEF Waiting, Queued, Running
    <3>6. PICK m \in Gens : Alive(<<h, m>>) BY <1>1, <3>5 DEF IInv, BusyInv, Worked
    <3>7. <<h, m>> \in Jobs /\ run[<<h, m>>].at \in Phases BY <1>1, <3>5 DEF IInv, Typed
    <3>8. run[<<h, m>>].at = "poll" BY <2>1, <2>4, <3>6, <3>7 DEF Alive, Phases
    <3>. QED BY <3>4, <3>7, <3>8
  <2>. QED BY <2>3, <2>4
<1>2. Spec => []QueueInv BY Invariant, InitQueueInv, NextQueueInv, PTL DEF Spec
<1>3. IInv /\ QueueInv => QueueMoves BY <1>1
<1>. QED BY <1>2, <1>3, Invariant, PTL

=============================================================================
