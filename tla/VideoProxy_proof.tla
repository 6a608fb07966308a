-------------------------- MODULE VideoProxy_proof --------------------------
(***************************************************************************)
(* Proofs about VideoProxy, for any keys, viewers, slots and bounds: a     *)
(* busy runtime has its goroutine, a finished proxy is whole, and no Done  *)
(* is closed twice.                                                        *)
(*                                                                         *)
(* Goroutines find their runtime by key.  What makes the properties        *)
(* inductive is that, until a runtime or its files went away under a       *)
(* goroutine, the goroutine at work for a key is the one its runtime was   *)
(* made for, and the runtime is busy or its file is there - so no other    *)
(* one is started (OwnedInv), and the temporary file is its own (TmpInv).  *)
(***************************************************************************)
EXTENDS VideoProxy, TLAPS

EntryType == [gen : 0 .. MaxRuns, queued : BOOLEAN, transcoding : BOOLEAN, cancel : 0 .. MaxRuns,
              streams : Nat, leases : SUBSET Viewers, shut : BOOLEAN]

ProxyTyped == proxy \in [Keys -> EntryType \cup {NoEntry}]
RunTyped == run \in [Jobs -> Phases]
FilesTyped == /\ tmp \in [Keys -> 0 .. MaxRuns] /\ dest \in [Keys -> {"none", "whole", "part"}]
              /\ crashed \in BOOLEAN /\ undercut \subseteq Keys
ViewerTyped == viewer \in [Viewers -> {Away} \cup [at : {"coming", "opening", "live", "cached"}, key : Keys]]
Typed == ProxyTyped /\ RunTyped /\ FilesTyped /\ ViewerTyped

Worked(k) == \E g \in Gens : Alive(<<k, g>>)

OwnedInv == \A k \in Keys \ undercut, g \in Gens :
    Alive(<<k, g>>) => /\ Present(k) /\ proxy[k].gen = g /\ ~proxy[k].shut
                       /\ Busy(proxy[k]) \/ Cached(k)
BusyInv == \A k \in Keys : Present(k) /\ Busy(proxy[k]) => Worked(k)
\* Between StartRun and FinishFiles.
Working == {"listing", "slot", "started", "transcode", "good", "bad", "idled"}
StatusInv == status = "processing" => \E j \in Jobs : run[j] \in Working
\* A goroutine removed the old temporary file before it made its own.
TmpInv == \A k \in Keys \ undercut, g \in Gens :
    run[<<k, g>>] \in {"listing", "slot", "started", "transcode", "good"} => tmp[k] \in {0, g}

FilesInv == TmpInv /\ ProxyIsWhole
IInv == Typed /\ OwnedInv /\ BusyInv /\ StatusInv /\ FilesInv /\ DoneClosesOnce

LEMMA EntryIsSome == ASSUME NEW e \in EntryType PROVE e # NoEntry
<1>1. NoEntry.gen = -1 /\ e.gen \in 0 .. MaxRuns BY DEF NoEntry, EntryType
<1>. QED BY <1>1, ConstantsAssumption

LEMMA EntryAt ==
    ASSUME ProxyTyped, NEW k \in Keys
    PROVE  (Present(k) <=> proxy[k] \in EntryType) /\ Touched(k) \in EntryType
<1>1. NewEntry \in EntryType BY ConstantsAssumption DEF NewEntry, EntryType
<1>. QED BY <1>1, EntryIsSome DEF ProxyTyped, Present, Touched

LEMMA NewEntryHas == ~Busy(NewEntry)
BY DEF NewEntry, Busy

LEMMA JobParts == ASSUME NEW j \in Jobs PROVE j[1] \in Keys /\ j[2] \in Gens /\ j = <<j[1], j[2]>>
BY DEF Jobs

LEMMA GenTyped == Gens \subseteq 0 .. MaxRuns /\ 0 \in 0 .. MaxRuns
BY ConstantsAssumption DEF Gens

LEMMA InitInv == Init => IInv
<1>1. ASSUME Init PROVE Typed
  <2>1. ProxyTyped /\ RunTyped BY <1>1 DEF Init, ProxyTyped, RunTyped, Phases
  <2>2. FilesTyped BY <1>1, GenTyped DEF Init, FilesTyped
  <2>3. ViewerTyped BY <1>1 DEF Init, ViewerTyped
  <2>. QED BY <2>1, <2>2, <2>3 DEF Typed
<1>2. ASSUME Init PROVE OwnedInv /\ BusyInv /\ StatusInv /\ FilesInv /\ DoneClosesOnce
  BY <1>2 DEF Init, OwnedInv, BusyInv, StatusInv, FilesInv, TmpInv, ProxyIsWhole, DoneClosesOnce, Alive, Present, Jobs
<1>. QED BY <1>1, <1>2 DEF IInv

-----------------------------------------------------------------------------
(* What steps do to the runtimes                                           *)

\* A runtime keeps its number and stays busy; a new one is not busy.
Kept(k) ==
    \/ ~Present(k) /\ (proxy'[k] = NoEntry \/ ~Busy(proxy'[k]))
    \/ /\ Present(k) /\ proxy'[k] # NoEntry
       /\ proxy'[k].gen = proxy[k].gen /\ proxy'[k].shut = proxy[k].shut
       /\ Busy(proxy[k]) => Busy(proxy'[k])
       /\ Busy(proxy'[k]) => Busy(proxy[k]) \/ Worked(k)

ProxyKept == ProxyTyped' /\ \A k \in Keys : Kept(k)

LEMMA KeptSame == ASSUME ProxyTyped, UNCHANGED proxy PROVE ProxyKept
BY DEF ProxyTyped, ProxyKept, Kept, Present, Busy

\* One runtime changes.
LEMMA KeptOne ==
    ASSUME ProxyTyped, NEW k \in Keys, NEW e \in EntryType, proxy' = [proxy EXCEPT ![k] = e],
           ~Present(k) => ~Busy(e),
           Present(k) => /\ e.gen = proxy[k].gen /\ e.shut = proxy[k].shut
                         /\ Busy(proxy[k]) => Busy(e)
                         /\ Busy(e) => Busy(proxy[k]) \/ Worked(k)
    PROVE  ProxyKept
<1>1. ProxyTyped' BY DEF ProxyTyped
<1>2. e # NoEntry BY EntryIsSome
<1>3. ASSUME NEW l \in Keys PROVE Kept(l)
  <2>1. CASE l = k BY <1>2, <2>1 DEF ProxyTyped, Kept
  <2>2. CASE l # k
    <3>1. proxy'[l] = proxy[l] BY <2>2 DEF ProxyTyped
    <3>. QED BY <3>1 DEF Kept, Present, Busy
  <2>. QED BY <2>1, <2>2
<1>. QED BY <1>1, <1>3 DEF ProxyKept

\* Goroutines are at work as before: the runtimes still are theirs.
LEMMA OwnersKeep ==
    ASSUME OwnedInv, BusyInv, ProxyKept, \A i \in Jobs : Alive(i)' <=> Alive(i), undercut \subseteq undercut',
           \A k \in Keys \ undercut' : Cached(k) => Cached(k)'
    PROVE  OwnedInv' /\ BusyInv'
<1>1. \A k \in Keys, g \in Gens : Alive(<<k, g>>)' <=> Alive(<<k, g>>) BY DEF Jobs
<1>2. \A k \in Keys : Worked(k)' <=> Worked(k) BY <1>1 DEF Worked
<1>3. OwnedInv'
  <2>1. SUFFICES ASSUME NEW k \in Keys \ undercut', NEW g \in Gens, Alive(<<k, g>>)
                 PROVE  (Present(k) /\ proxy[k].gen = g /\ ~proxy[k].shut /\ (Busy(proxy[k]) \/ Cached(k)))'
    BY <1>1 DEF OwnedInv
  <2>2. Present(k) /\ proxy[k].gen = g /\ ~proxy[k].shut /\ (Busy(proxy[k]) \/ Cached(k))
    BY <2>1 DEF OwnedInv
  <2>3. Kept(k) BY DEF ProxyKept
  <2>. QED BY <2>2, <2>3 DEF Kept, Present, Busy
<1>4. BusyInv'
  <2>1. SUFFICES ASSUME NEW k \in Keys, proxy'[k] # NoEntry, Busy(proxy'[k]) PROVE Worked(k)
    BY <1>2 DEF BusyInv, Present, Busy
  <2>2. Kept(k) BY DEF ProxyKept
  <2>. QED BY <2>1, <2>2 DEF Kept, BusyInv
<1>. QED BY <1>3, <1>4

\* Files, status and goroutines are left alone.
LEMMA WorkKeeps ==
    ASSUME IInv, ProxyKept, UNCHANGED <<run, tmp, dest, status, crashed, undercut>>, ViewerTyped'
    PROVE  IInv'
<1>1. \A i \in Jobs : Alive(i)' <=> Alive(i) BY DEF Alive
<1>2. OwnedInv' /\ BusyInv' BY <1>1, OwnersKeep DEF IInv, Cached
<1>3. Typed' BY DEF IInv, Typed, ProxyKept, RunTyped, FilesTyped
<1>4. StatusInv' /\ FilesInv' /\ DoneClosesOnce'
  BY DEF IInv, StatusInv, FilesInv, TmpInv, ProxyIsWhole, DoneClosesOnce
<1>. QED BY <1>2, <1>3, <1>4 DEF IInv

-----------------------------------------------------------------------------
(* Viewers                                                                 *)

LEMMA ViewerKey == ASSUME ViewerTyped, NEW v \in Viewers, viewer[v].at # "away" PROVE viewer[v].key \in Keys
BY DEF ViewerTyped, Away

LEMMA StreamKept ==
    ASSUME ProxyTyped, NEW v \in Viewers, NEW k \in Keys, Streaming(v, k)
    PROVE  ProxyKept
<1>1. CASE Present(k)
  <2>. DEFINE e == [proxy[k] EXCEPT !.streams = @ + 1, !.leases = @ \cup {v}]
  <2>1. proxy[k] \in EntryType BY <1>1, EntryAt
  <2>2. e \in EntryType
    <3>1. proxy[k].streams + 1 \in Nat BY <2>1 DEF EntryType
    <3>. QED BY <2>1, <3>1 DEF EntryType
  <2>3. e.gen = proxy[k].gen /\ e.shut = proxy[k].shut /\ Busy(e) = Busy(proxy[k])
    BY <2>1 DEF EntryType, Busy
  <2>4. proxy' = [proxy EXCEPT ![k] = e] BY <1>1, <2>1 DEF Streaming, ProxyTyped
  <2>. HIDE DEF e
  <2>. QED BY <1>1, <2>2, <2>3, <2>4, KeptOne
<1>2. CASE ~Present(k) BY <1>2, KeptSame DEF Streaming
<1>. QED BY <1>1, <1>2

LEMMA ViewerStreams ==
    ASSUME IInv, NEW v \in Viewers, JoinStream(v) \/ OpenCached(v) \/ LeaveStream(v)
    PROVE  IInv'
<1>. DEFINE k == viewer[v].key
<1>1. Typed /\ ProxyTyped /\ ViewerTyped BY DEF IInv, Typed
<1>2. viewer[v].at # "away" /\ k \in Keys
  <2>1. viewer[v].at # "away" BY DEF JoinStream, OpenCached, LeaveStream
  <2>. QED BY <1>1, <2>1, ViewerKey
<1>3. ViewerTyped'
  <2>1. viewer[v] \in [at : {"coming", "opening", "live", "cached"}, key : Keys] BY <1>1, <1>2 DEF ViewerTyped, Away
  <2>. QED BY <1>1, <2>1 DEF ViewerTyped, JoinStream, OpenCached, LeaveStream
<1>4. ProxyKept
  <2>1. CASE JoinStream(v) BY <1>1, <1>2, <2>1, StreamKept DEF JoinStream
  <2>2. CASE OpenCached(v) BY <1>1, <1>2, <2>2, StreamKept, KeptSame DEF OpenCached
  <2>3. CASE LeaveStream(v) /\ Present(k) /\ proxy[k].streams > 0
    <3>. DEFINE e == [proxy[k] EXCEPT !.streams = @ - 1]
    <3>1. proxy[k] \in EntryType BY <1>1, <1>2, <2>3, EntryAt
    <3>2. e \in EntryType
      <4>1. proxy[k].streams - 1 \in Nat BY <2>3, <3>1 DEF EntryType
      <4>. QED BY <3>1, <4>1 DEF EntryType
    <3>3. e.gen = proxy[k].gen /\ e.shut = proxy[k].shut /\ Busy(e) = Busy(proxy[k])
      BY <3>1 DEF EntryType, Busy
    <3>4. proxy' = [proxy EXCEPT ![k] = e] BY <2>3 DEF LeaveStream
    <3>. HIDE DEF e
    <3>. QED BY <1>1, <1>2, <2>3, <3>2, <3>3, <3>4, KeptOne
  <2>4. CASE LeaveStream(v) /\ ~(Present(k) /\ proxy[k].streams > 0) BY <1>1, <2>4, KeptSame DEF LeaveStream
  <2>. QED BY <2>1, <2>2, <2>3, <2>4
<1>. QED BY <1>3, <1>4, WorkKeeps DEF JoinStream, OpenCached, LeaveStream, RunsKeep, FilesKeep, WorldKeeps

LEMMA LeasesChange ==
    ASSUME IInv, NEW v \in Viewers, NEW k \in Keys,
           LeaseEnds(v, k) \/ \E wants \in BOOLEAN : Heartbeat(v, k, wants)
    PROVE  IInv'
<1>1. Typed /\ ProxyTyped /\ ViewerTyped BY DEF IInv, Typed
<1>2. ProxyKept
  <2>1. \E L \in SUBSET Viewers : proxy' = [proxy EXCEPT ![k] = [Touched(k) EXCEPT !.leases = L]]
    <3>1. Touched(k) \in EntryType BY <1>1, EntryAt
    <3>2. Touched(k).leases \in SUBSET Viewers BY <3>1 DEF EntryType
    <3>3. CASE \E wants \in BOOLEAN : Heartbeat(v, k, wants) BY <3>2, <3>3 DEF Heartbeat
    <3>4. CASE LeaseEnds(v, k) BY <3>2, <3>4 DEF LeaseEnds, Touched
    <3>. QED BY <3>3, <3>4
  <2>2. PICK L \in SUBSET Viewers : proxy' = [proxy EXCEPT ![k] = [Touched(k) EXCEPT !.leases = L]] BY <2>1
  <2>. DEFINE e == [Touched(k) EXCEPT !.leases = L]
  <2>3. Touched(k) \in EntryType BY <1>1, EntryAt
  <2>4. e \in EntryType BY <2>3 DEF EntryType
  <2>5. e.gen = Touched(k).gen /\ e.shut = Touched(k).shut /\ Busy(e) = Busy(Touched(k))
    BY <2>3 DEF EntryType, Busy
  <2>6. proxy' = [proxy EXCEPT ![k] = e] BY <2>2
  <2>. HIDE DEF e
  <2>. QED BY <1>1, <2>4, <2>5, <2>6, KeptOne, NewEntryHas DEF Touched
<1>. QED BY <1>1, <1>2, WorkKeeps DEF LeaseEnds, Heartbeat, RunsKeep, FilesKeep, WorldKeeps, ViewerTyped

\* A goroutine is started where none is at work, unless the key was undercut.
LEMMA EnsureKeeps ==
    ASSUME IInv, NEW k \in Keys, NEW e \in EntryType, e = Touched(k), Ensured(k, e),
           UNCHANGED <<tmp, dest, status, crashed, undercut>>, ViewerTyped'
    PROVE  IInv'
<1>1. Typed /\ ProxyTyped /\ RunTyped BY DEF IInv, Typed
<1>2. Present(k) => e = proxy[k] BY DEF Touched
<1>3. ~Present(k) => e = NewEntry BY DEF Touched
<1>4. CASE Cached(k) /\ UNCHANGED run /\ proxy' = [proxy EXCEPT ![k] = [e EXCEPT !.transcoding = FALSE]]
  <2>. DEFINE f == [e EXCEPT !.transcoding = FALSE]
  <2>1. f \in EntryType /\ f.gen = e.gen /\ f.shut = e.shut /\ f.queued = e.queued /\ ~f.transcoding
    BY DEF EntryType
  <2>2. proxy' = [proxy EXCEPT ![k] = f] BY <1>4
  <2>. HIDE DEF f
  <2>3. ProxyTyped' BY <1>1, <2>1, <2>2 DEF ProxyTyped
  <2>4. \A l \in Keys : l # k => proxy'[l] = proxy[l] BY <1>1, <2>2 DEF ProxyTyped
  <2>5. proxy'[k] = f /\ f # NoEntry BY <1>1, <2>1, <2>2, EntryIsSome DEF ProxyTyped
  <2>6. OwnedInv'
    <3>1. SUFFICES ASSUME NEW l \in Keys \ undercut, NEW g \in Gens, Alive(<<l, g>>)
                   PROVE  (Present(l) /\ proxy[l].gen = g /\ ~proxy[l].shut /\ (Busy(proxy[l]) \/ Cached(l)))'
      BY <1>4 DEF OwnedInv, Alive
    <3>2. Present(l) /\ proxy[l].gen = g /\ ~proxy[l].shut /\ (Busy(proxy[l]) \/ Cached(l))
      BY <3>1 DEF IInv, OwnedInv
    <3>3. CASE l = k BY <1>2, <1>4, <2>1, <2>5, <3>2, <3>3 DEF Present, Cached
    <3>4. CASE l # k BY <2>4, <3>2, <3>4 DEF Present, Busy, Cached
    <3>. QED BY <3>3, <3>4
  <2>7. BusyInv'
    BY <1>2, <1>3, <1>4, <2>1, <2>4, <2>5, NewEntryHas DEF IInv, BusyInv, Present, Alive, Worked, Busy
  <2>8. StatusInv' /\ FilesInv' /\ DoneClosesOnce' /\ Typed'
    BY <1>4, <2>3 DEF IInv, StatusInv, FilesInv, TmpInv, ProxyIsWhole, DoneClosesOnce, Typed, RunTyped, FilesTyped
  <2>. QED BY <2>6, <2>7, <2>8 DEF IInv
<1>5. CASE Joins(k, e) /\ proxy' = [proxy EXCEPT ![k] = e] /\ UNCHANGED run
  <2>1. Present(k) BY <1>3, <1>5, NewEntryHas DEF Joins
  <2>2. ProxyKept BY <1>1, <1>2, <1>5, <2>1, KeptOne
  <2>. QED BY <1>5, <2>2, WorkKeeps
<1>6. ASSUME NEW g \in Gens, Starts(k, e, g), run' = [run EXCEPT ![<<k, g>>] = "start"],
             proxy' = [proxy EXCEPT ![k] = [e EXCEPT !.queued = TRUE, !.transcoding = FALSE, !.gen = g, !.shut = FALSE]]
      PROVE  IInv'
  <2>. DEFINE f == [e EXCEPT !.queued = TRUE, !.transcoding = FALSE, !.gen = g, !.shut = FALSE]
  <2>0. <<k, g>> \in Jobs /\ run[<<k, g>>] = "none" BY <1>6 DEF Jobs, Starts
  <2>1. f \in EntryType /\ f.gen = g /\ ~f.shut /\ f.queued
    BY GenTyped DEF EntryType
  <2>2. proxy' = [proxy EXCEPT ![k] = f] BY <1>6
  <2>. HIDE DEF f
  <2>3. ProxyTyped' /\ RunTyped' BY <1>1, <1>6, <2>1, <2>2 DEF ProxyTyped, RunTyped, Phases
  <2>4. \A l \in Keys : l # k => proxy'[l] = proxy[l] BY <1>1, <2>2 DEF ProxyTyped
  <2>5. proxy'[k] = f /\ f # NoEntry BY <1>1, <2>1, <2>2, EntryIsSome DEF ProxyTyped
  <2>6. \A j \in Jobs : j # <<k, g>> => run'[j] = run[j] BY <1>1, <1>6 DEF RunTyped
  <2>7. run'[<<k, g>>] = "start" BY <1>1, <1>6, <2>0 DEF RunTyped
  <2>8. k \in undercut \/ ~Worked(k)
    BY <1>2, <1>6 DEF Starts, IInv, OwnedInv, Worked
  <2>9. \A l \in Keys, h \in Gens : <<l, h>> # <<k, g>> => run'[<<l, h>>] = run[<<l, h>>]
    BY <2>6 DEF Jobs
  <2>10. OwnedInv'
    <3>1. SUFFICES ASSUME NEW l \in Keys \ undercut, NEW h \in Gens, Alive(<<l, h>>)'
                   PROVE  (Present(l) /\ proxy[l].gen = h /\ ~proxy[l].shut /\ (Busy(proxy[l]) \/ Cached(l)))'
      BY DEF OwnedInv
    <3>2. CASE l = k
      <4>1. h = g BY <2>8, <2>9, <3>1, <3>2 DEF Alive, Worked
      <4>. QED BY <2>1, <2>5, <3>2, <4>1 DEF Present, Busy
    <3>3. CASE l # k
      <4>1. Alive(<<l, h>>) BY <2>9, <3>1, <3>3 DEF Alive
      <4>. QED BY <2>4, <3>3, <4>1 DEF IInv, OwnedInv, Present, Busy, Cached
    <3>. QED BY <3>2, <3>3
  <2>11. BusyInv'
    <3>1. SUFFICES ASSUME NEW l \in Keys, Present(l)', Busy(proxy'[l]) PROVE Worked(l)'
      BY DEF BusyInv, Busy
    <3>2. CASE l = k BY <2>7, <3>2 DEF Worked, Alive
    <3>3. CASE l # k
      <4>1. Worked(l) BY <2>4, <3>1, <3>3 DEF IInv, BusyInv, Present
      <4>. QED BY <2>9, <3>3, <4>1 DEF Worked, Alive
    <3>. QED BY <3>2, <3>3
  <2>12. StatusInv'
    <3>1. \A j \in Jobs : run[j] \in Working => run'[j] = run[j] BY <2>0, <2>6 DEF Working
    <3>. QED BY <3>1 DEF IInv, StatusInv
  <2>13. FilesInv'
    BY <2>7, <2>9 DEF IInv, FilesInv, TmpInv, ProxyIsWhole
  <2>. QED BY <2>3, <2>10, <2>11, <2>12, <2>13 DEF IInv, Typed, FilesTyped, DoneClosesOnce
<1>. QED BY <1>4, <1>5, <1>6 DEF Ensured

LEMMA ViewersEnsure ==
    ASSUME IInv, NEW k \in Keys, KeepaliveEnsures(k) \/ \E v \in Viewers : Play(v, k)
    PROVE  IInv'
<1>1. Touched(k) \in EntryType /\ (Present(k) => Touched(k) = proxy[k]) BY EntryAt DEF IInv, Typed, Touched
<1>2. Ensured(k, Touched(k)) BY <1>1 DEF KeepaliveEnsures, Play
<1>3. UNCHANGED <<tmp, dest, status, crashed, undercut>>
  BY DEF KeepaliveEnsures, Play, FilesKeep, WorldKeeps
<1>4. ViewerTyped'
  <2>1. CASE KeepaliveEnsures(k) BY <2>1 DEF KeepaliveEnsures, IInv, Typed, ViewerTyped
  <2>2. CASE \E v \in Viewers : Play(v, k) BY <2>2 DEF Play, IInv, Typed, ViewerTyped
  <2>. QED BY <2>1, <2>2
<1>. QED BY <1>1, <1>2, <1>3, <1>4, EnsureKeeps

-----------------------------------------------------------------------------
(* Goroutines                                                              *)

\* A goroutine of a key that was not undercut is the only one at work for it.
LEMMA OnlyOne ==
    ASSUME OwnedInv, NEW k \in Keys \ undercut, NEW g \in Gens, NEW h \in Gens, Alive(<<k, g>>), Alive(<<k, h>>)
    PROVE  g = h
BY DEF OwnedInv

LEMMA RunMoves ==
    ASSUME IInv, NEW j \in Jobs, NEW at \in Phases \ {"none", "ended"}, Alive(j), To(j, at), ProxyKept,
           \A k \in Keys \ undercut : Cached(k) => Cached(k)', UNCHANGED <<crashed, undercut>>
    PROVE  OwnedInv' /\ BusyInv' /\ RunTyped' /\ DoneClosesOnce'
<1>1. RunTyped' BY DEF IInv, Typed, RunTyped, To, Phases
<1>2. \A i \in Jobs : Alive(i)' <=> Alive(i) BY DEF IInv, Typed, RunTyped, To, Alive
<1>3. OwnedInv' /\ BusyInv' BY <1>2, OwnersKeep DEF IInv
<1>. QED BY <1>1, <1>3 DEF IInv, DoneClosesOnce

\* The runtime of a goroutine is changed where it is still there.
LEMMA OwnerKept ==
    ASSUME ProxyTyped, NEW j \in Jobs, Alive(j), ListCancel(j) \/ Transcode(j)
    PROVE  ProxyKept
<1>. DEFINE k == j[1]
<1>0. k \in Keys /\ j[2] \in 0 .. MaxRuns /\ Worked(k) BY JobParts, GenTyped DEF Worked
<1>1. CASE ~Present(k) BY <1>1, KeptSame DEF ListCancel, Transcode
<1>2. CASE ListCancel(j) /\ Present(k)
  <2>. DEFINE e == [proxy[k] EXCEPT !.cancel = j[2]]
  <2>1. proxy[k] \in EntryType BY <1>0, <1>2, EntryAt
  <2>2. e \in EntryType /\ e.gen = proxy[k].gen /\ e.shut = proxy[k].shut /\ Busy(e) = Busy(proxy[k])
    BY <1>0, <2>1 DEF EntryType, Busy
  <2>3. proxy' = [proxy EXCEPT ![k] = e] BY <1>2 DEF ListCancel
  <2>. HIDE DEF e
  <2>. QED BY <1>0, <1>2, <2>2, <2>3, KeptOne
<1>3. CASE Transcode(j) /\ Present(k)
  <2>. DEFINE e == [proxy[k] EXCEPT !.queued = FALSE, !.transcoding = TRUE]
  <2>1. proxy[k] \in EntryType BY <1>0, <1>3, EntryAt
  <2>2. e \in EntryType /\ e.gen = proxy[k].gen /\ e.shut = proxy[k].shut /\ Busy(e)
    BY <2>1 DEF EntryType, Busy
  <2>3. proxy' = [proxy EXCEPT ![k] = e] BY <1>0, <1>3, <2>1 DEF Transcode, ProxyTyped
  <2>. HIDE DEF e
  <2>. QED BY <1>0, <1>3, <2>2, <2>3, KeptOne
<1>. QED BY <1>1, <1>2, <1>3

LEMMA StartKeeps == ASSUME IInv, NEW j \in Jobs, StartRun(j) PROVE IInv'
<1>0. Typed /\ Alive(j) /\ j[1] \in Keys /\ j[2] \in Gens /\ j = <<j[1], j[2]>>
  BY JobParts DEF IInv, Alive, StartRun
<1>1. PICK at \in {"bad", "listing"} : To(j, at)
    /\ (at = "bad" => UNCHANGED <<tmp, status>>) /\ (at = "listing" => tmp' = [tmp EXCEPT ![j[1]] = 0])
  BY DEF StartRun
<1>2. ProxyKept BY <1>0, KeptSame DEF StartRun, Typed
<1>3. OwnedInv' /\ BusyInv' /\ RunTyped' /\ DoneClosesOnce'
  BY <1>0, <1>1, <1>2, RunMoves DEF StartRun, WorldKeeps, Cached, Phases
<1>4. Typed' BY <1>0, <1>1, <1>2, <1>3, GenTyped DEF Typed, ProxyKept, FilesTyped, ViewerTyped, StartRun, WorldKeeps
<1>5. run'[j] = at /\ \A i \in Jobs : i # j => run'[i] = run[i] BY <1>0, <1>1 DEF Typed, RunTyped, To
<1>6. StatusInv'
  <2>1. run'[j] \in Working BY <1>1, <1>5 DEF Working
  <2>. QED BY <2>1 DEF StatusInv
<1>7. TmpInv'
  <2>1. SUFFICES ASSUME NEW k \in Keys \ undercut, NEW g \in Gens,
                        run'[<<k, g>>] \in {"listing", "slot", "started", "transcode", "good"}
                 PROVE  tmp'[k] \in {0, g}
    BY DEF TmpInv, StartRun, WorldKeeps
  <2>2. CASE <<k, g>> = j
    <3>1. at = "listing" /\ k = j[1] BY <1>0, <1>1, <1>5, <2>1, <2>2
    <3>. QED BY <1>0, <1>1, <3>1 DEF Typed, FilesTyped
  <2>3. CASE <<k, g>> # j
    <3>1. run'[<<k, g>>] = run[<<k, g>>] BY <1>5, <2>3 DEF Jobs
    <3>2. tmp[k] \in {0, g} BY <2>1, <3>1 DEF IInv, FilesInv, TmpInv
    <3>. QED BY <1>0, <1>1, <3>2 DEF Typed, FilesTyped
  <2>. QED BY <2>2, <2>3
<1>8. ProxyIsWhole' BY DEF IInv, FilesInv, ProxyIsWhole, StartRun, WorldKeeps
<1>. QED BY <1>3, <1>4, <1>6, <1>7, <1>8 DEF IInv, FilesInv

LEMMA MiddleKeeps ==
    ASSUME IInv, NEW j \in Jobs, ListCancel(j) \/ TakeSlot(j) \/ GiveUp(j) \/ Transcode(j) \/ TranscodeEnds(j)
    PROVE  IInv'
<1>0. Typed /\ Alive(j) /\ j[1] \in Keys /\ j[2] \in Gens /\ j = <<j[1], j[2]>>
  BY JobParts DEF IInv, Alive, ListCancel, TakeSlot, GiveUp, Transcode, TranscodeEnds
<1>1. PICK at \in {"slot", "started", "idled", "transcode", "bad", "good"} : To(j, at)
  BY DEF ListCancel, TakeSlot, GiveUp, AfterGivingUp, Transcode, TranscodeEnds
<1>2. ProxyKept BY <1>0, KeptSame, OwnerKept DEF TakeSlot, GiveUp, TranscodeEnds, Typed
<1>3. UNCHANGED <<dest, status, crashed, undercut, viewer>>
  BY DEF ListCancel, TakeSlot, GiveUp, Transcode, TranscodeEnds, FilesKeep, WorldKeeps
<1>4. OwnedInv' /\ BusyInv' /\ RunTyped' /\ DoneClosesOnce'
  BY <1>0, <1>1, <1>2, <1>3, RunMoves DEF Cached, Phases
<1>5. tmp' = tmp \/ (Transcode(j) /\ tmp' = [tmp EXCEPT ![j[1]] = j[2]])
  BY DEF ListCancel, TakeSlot, GiveUp, Transcode, TranscodeEnds, FilesKeep
<1>6. Typed' BY <1>0, <1>2, <1>3, <1>4, <1>5, GenTyped DEF Typed, ProxyKept, FilesTyped, ViewerTyped
<1>7. run'[j] = at /\ \A i \in Jobs : i # j => run'[i] = run[i] BY <1>0, <1>1 DEF Typed, RunTyped, To
<1>8. StatusInv'
  <2>1. run'[j] \in Working BY <1>1, <1>7 DEF Working
  <2>. QED BY <2>1 DEF StatusInv
<1>9. run[j] \in {"listing", "slot", "started", "transcode"}
  BY DEF ListCancel, TakeSlot, GiveUp, Transcode, TranscodeEnds
<1>10. TmpInv'
  <2>1. SUFFICES ASSUME NEW k \in Keys \ undercut, NEW g \in Gens,
                        run'[<<k, g>>] \in {"listing", "slot", "started", "transcode", "good"}
                 PROVE  tmp'[k] \in {0, g}
    BY <1>3 DEF TmpInv
  <2>2. run[<<k, g>>] \in {"listing", "slot", "started", "transcode", "good"}
    BY <1>7, <1>9, <2>1 DEF Jobs
  <2>3. tmp[k] \in {0, g} BY <2>2 DEF IInv, FilesInv, TmpInv
  <2>4. CASE k = j[1]
    <3>1. Alive(<<k, g>>) BY <2>2 DEF Alive
    <3>2. g = j[2] BY <1>0, <2>4, <3>1, OnlyOne DEF IInv
    <3>. QED BY <1>0, <1>5, <2>3, <2>4, <3>2 DEF Typed, FilesTyped
  <2>5. CASE k # j[1] BY <1>0, <1>5, <2>3, <2>5 DEF Typed, FilesTyped
  <2>. QED BY <2>4, <2>5
<1>11. ProxyIsWhole' BY <1>3 DEF IInv, FilesInv, ProxyIsWhole
<1>. QED BY <1>4, <1>6, <1>8, <1>10, <1>11 DEF IInv, FilesInv

LEMMA FinishKeeps == ASSUME IInv, NEW j \in Jobs, FinishFiles(j) PROVE IInv'
<1>. DEFINE k == j[1]
            renamed == run[j] \in GoodOutcome /\ tmp[k] # 0
<1>0. Typed /\ Alive(j) /\ k \in Keys /\ j[2] \in Gens /\ j = <<j[1], j[2]>>
  BY JobParts DEF IInv, Alive, FinishFiles
<1>1. /\ To(j, "report") /\ tmp' = [tmp EXCEPT ![k] = 0]
      /\ dest' = IF renamed THEN [dest EXCEPT ![k] = IF Whole(k) THEN "whole" ELSE "part"] ELSE dest
      /\ status' = IF run[j] = "idled" THEN "not_required" ELSE IF renamed THEN "ready" ELSE "error"
      /\ UNCHANGED <<proxy, viewer, crashed, undercut>>
  BY DEF FinishFiles, WorldKeeps
<1>2. ProxyKept BY <1>0, <1>1, KeptSame DEF Typed
<1>3. dest' \in [Keys -> {"none", "whole", "part"}] BY <1>0, <1>1 DEF Typed, FilesTyped
<1>4. \A l \in Keys : Cached(l) => Cached(l)' BY <1>0, <1>1 DEF Typed, FilesTyped, Cached
<1>5. OwnedInv' /\ BusyInv' /\ RunTyped' /\ DoneClosesOnce'
  BY <1>0, <1>1, <1>2, <1>4, RunMoves DEF Phases
<1>6. Typed' BY <1>0, <1>1, <1>2, <1>3, <1>5, GenTyped DEF Typed, ProxyKept, FilesTyped, ViewerTyped
<1>7. StatusInv' BY <1>1 DEF StatusInv
<1>8. TmpInv'
  <2>1. run'[j] = "report" /\ \A i \in Jobs : i # j => run'[i] = run[i] BY <1>0, <1>1 DEF Typed, RunTyped, To
  <2>. QED BY <1>0, <1>1, <2>1 DEF IInv, FilesInv, TmpInv, Typed, FilesTyped, Jobs
<1>9. ProxyIsWhole'
  <2>1. SUFFICES ASSUME NEW l \in Keys, dest'[l] = "part" PROVE l \in undercut
    BY <1>1 DEF ProxyIsWhole
  <2>2. CASE dest[l] = "part" BY <2>2 DEF IInv, FilesInv, ProxyIsWhole
  <2>3. CASE dest[l] # "part"
    <3>1. l = k /\ renamed /\ ~Whole(k) BY <1>0, <1>1, <2>1, <2>3 DEF Typed, FilesTyped
    <3>2. run[<<k, j[2]>>] = "good" /\ tmp[k] # j[2] /\ tmp[k] # 0 BY <1>0, <3>1 DEF Whole, GoodOutcome
    <3>. QED BY <1>0, <3>1, <3>2 DEF IInv, FilesInv, TmpInv
  <2>. QED BY <2>2, <2>3
<1>. QED BY <1>5, <1>6, <1>7, <1>8, <1>9 DEF IInv, FilesInv

LEMMA ReportKeeps == ASSUME IInv, NEW j \in Jobs, Report(j) PROVE IInv'
<1>. DEFINE k == j[1]
<1>0. Typed /\ Alive(j) /\ k \in Keys /\ j[2] \in Gens /\ j = <<j[1], j[2]>>
  BY JobParts DEF IInv, Alive, Report
<1>1. /\ To(j, "ended") /\ UNCHANGED <<tmp, dest, status, viewer, undercut>>
      /\ proxy' = IF Present(k) THEN [proxy EXCEPT ![k] = Reported(@)] ELSE proxy
      /\ crashed' = (crashed \/ (Present(k) /\ proxy[k].shut))
  BY DEF Report, FilesKeep
<1>2. RunTyped' /\ run'[j] = "ended" /\ \A i \in Jobs : i # j => run'[i] = run[i]
  BY <1>0, <1>1 DEF Typed, RunTyped, To, Phases
<1>3. ProxyTyped' /\ (\A l \in Keys : l # k => proxy'[l] = proxy[l]) /\ (proxy'[k] # NoEntry => ~Busy(proxy'[k]))
  <2>1. CASE Present(k)
    <3>. DEFINE e == [proxy[k] EXCEPT !.queued = FALSE, !.transcoding = FALSE, !.cancel = 0, !.shut = TRUE]
    <3>1. proxy[k] \in EntryType BY <1>0, <2>1, EntryAt DEF Typed
    <3>2. e \in EntryType /\ ~Busy(e) BY <3>1, GenTyped DEF EntryType, Busy
    <3>3. proxy' = [proxy EXCEPT ![k] = e] BY <1>1, <2>1 DEF Reported
    <3>. HIDE DEF e
    <3>. QED BY <1>0, <3>2, <3>3 DEF Typed, ProxyTyped
  <2>2. CASE ~Present(k) BY <1>0, <1>1, <2>2 DEF Typed, ProxyTyped, Present
  <2>. QED BY <2>1, <2>2
<1>4. Typed' BY <1>0, <1>1, <1>2, <1>3 DEF Typed, FilesTyped, ViewerTyped
<1>5. \A l \in Keys, g \in Gens : Alive(<<l, g>>)' <=> Alive(<<l, g>>) /\ <<l, g>> # j
  BY <1>2 DEF Alive, Jobs
<1>6. OwnedInv'
  <2>1. SUFFICES ASSUME NEW l \in Keys \ undercut, NEW g \in Gens, Alive(<<l, g>>), <<l, g>> # j
                 PROVE  (Present(l) /\ proxy[l].gen = g /\ ~proxy[l].shut /\ (Busy(proxy[l]) \/ Cached(l)))'
    BY <1>1, <1>5 DEF OwnedInv
  <2>2. l # k BY <1>0, <2>1, OnlyOne DEF IInv
  <2>. QED BY <1>1, <1>3, <2>1, <2>2 DEF IInv, OwnedInv, Present, Busy, Cached
<1>7. BusyInv'
  <2>1. SUFFICES ASSUME NEW l \in Keys, proxy'[l] # NoEntry, Busy(proxy'[l]) PROVE Worked(l)'
    BY DEF BusyInv, Present, Busy
  <2>2. l # k BY <1>3, <2>1
  <2>3. Worked(l) BY <1>3, <2>1, <2>2 DEF IInv, BusyInv, Present
  <2>4. \A g \in Gens : <<l, g>> # j BY <1>0, <2>2
  <2>. QED BY <1>5, <2>3, <2>4 DEF Worked
<1>8. StatusInv'
  <2>1. run[j] \notin Working BY DEF Report, Working
  <2>2. \A i \in Jobs : run[i] \in Working => run'[i] = run[i] BY <1>2, <2>1
  <2>. QED BY <1>1, <2>2 DEF IInv, StatusInv
<1>9. FilesInv'
  BY <1>0, <1>1, <1>2 DEF IInv, FilesInv, TmpInv, ProxyIsWhole, Jobs
<1>10. DoneClosesOnce'
  BY <1>0, <1>1 DEF IInv, DoneClosesOnce, OwnedInv
<1>. QED BY <1>4, <1>6, <1>7, <1>8, <1>9, <1>10 DEF IInv

LEMMA RunKeeps == ASSUME IInv, NEW j \in Jobs, RunStep(j) PROVE IInv'
<1>1. CASE FindsIdle(j) \/ CancelsIdle(j)
  BY <1>1, KeptSame, WorkKeeps DEF FindsIdle, CancelsIdle, FilesKeep, WorldKeeps, IInv, Typed, ViewerTyped
<1>. QED BY <1>1, StartKeeps, MiddleKeeps, FinishKeeps, ReportKeeps DEF RunStep

-----------------------------------------------------------------------------
(* Sweepers, deletion, pause and restart                                   *)

LEMMA RemovalKeeps ==
    ASSUME IInv, NEW ks \in SUBSET Keys, Dropped(ks), UNCHANGED <<run, viewer, crashed>>,
           \A k \in Keys : proxy'[k] = proxy[k] \/ (k \in ks /\ proxy'[k] = NoEntry),
           proxy' \in [Keys -> EntryType \cup {NoEntry}], tmp' \in [Keys -> 0 .. MaxRuns],
           dest' \in [Keys -> {"none", "whole", "part"}],
           \A k \in Keys \ ks : tmp'[k] = tmp[k] /\ dest'[k] = dest[k],
           \A k \in Keys : dest'[k] \in {"none", dest[k]},
           status' \in {status, "not_required"}
    PROVE  IInv'
<1>1. undercut' = undercut \cup {k \in ks : Worked(k)} BY DEF Dropped, Worked
<1>2. Typed' BY <1>1 DEF IInv, Typed, ProxyTyped, RunTyped, FilesTyped, ViewerTyped
<1>3. \A k \in Keys \ undercut', g \in Gens : Alive(<<k, g>>) => k \notin ks /\ k \notin undercut
  BY <1>1 DEF Worked
<1>4. OwnedInv'
  <2>1. SUFFICES ASSUME NEW k \in Keys \ undercut', NEW g \in Gens, Alive(<<k, g>>)
                 PROVE  (Present(k) /\ proxy[k].gen = g /\ ~proxy[k].shut /\ (Busy(proxy[k]) \/ Cached(k)))'
    BY DEF OwnedInv, Alive
  <2>2. k \notin ks /\ k \notin undercut BY <1>3, <2>1
  <2>3. Present(k) /\ proxy[k].gen = g /\ ~proxy[k].shut /\ (Busy(proxy[k]) \/ Cached(k))
    BY <2>1, <2>2 DEF IInv, OwnedInv
  <2>. QED BY <2>2, <2>3 DEF Present, Busy, Cached
<1>5. BusyInv' BY DEF IInv, BusyInv, Present, Busy, Worked, Alive
<1>6. StatusInv' BY DEF IInv, StatusInv
<1>7. FilesInv'
  <2>1. TmpInv'
    <3>1. SUFFICES ASSUME NEW k \in Keys \ undercut', NEW g \in Gens,
                          run[<<k, g>>] \in {"listing", "slot", "started", "transcode", "good"}
                   PROVE  tmp'[k] \in {0, g}
      BY DEF TmpInv
    <3>2. Alive(<<k, g>>) BY <3>1 DEF Alive
    <3>3. tmp'[k] = tmp[k] /\ k \notin undercut BY <1>3, <3>1, <3>2
    <3>. QED BY <3>1, <3>3 DEF IInv, FilesInv, TmpInv
  <2>2. ProxyIsWhole' BY <1>1 DEF IInv, FilesInv, ProxyIsWhole
  <2>. QED BY <2>1, <2>2 DEF FilesInv
<1>8. DoneClosesOnce' BY <1>1 DEF IInv, DoneClosesOnce
<1>. QED BY <1>2, <1>4, <1>5, <1>6, <1>7, <1>8 DEF IInv

LEMMA SweepersKeep ==
    ASSUME IInv, NEW k \in Keys, Condemn(k) \/ RemoveCondemned(k) \/ Evict(k)
    PROVE  IInv'
<1>0. Typed BY DEF IInv
<1>1. CASE Condemn(k)
  BY <1>0, <1>1, RemovalKeeps DEF Condemn, SweepKeeps, Typed, ProxyTyped, FilesTyped
<1>2. CASE RemoveCondemned(k)
  BY <1>0, <1>2, GenTyped, RemovalKeeps DEF RemoveCondemned, SweepKeeps, Typed, ProxyTyped, FilesTyped
<1>3. CASE Evict(k)
  <2>1. Dropped({k}) BY <1>3 DEF Evict, Dropped
  <2>. QED BY <1>0, <1>3, <2>1, RemovalKeeps DEF Evict, SweepKeeps, Typed, ProxyTyped, FilesTyped
<1>. QED BY <1>1, <1>2, <1>3

LEMMA TroubleKeeps == ASSUME IInv, SetPause \/ DeleteAsset \/ Restart PROVE IInv'
<1>0. Typed BY DEF IInv
<1>1. CASE SetPause
  BY <1>0, <1>1, KeptSame, WorkKeeps DEF SetPause, FilesKeep, Typed, ViewerTyped
<1>2. CASE DeleteAsset
  BY <1>0, <1>2, RemovalKeeps DEF DeleteAsset, Typed, ProxyTyped, FilesTyped
<1>3. CASE Restart
  <2>1. \A j \in Jobs : run'[j] \in {"none", "ended"} BY <1>0, <1>3 DEF Restart, Alive
  <2>2. \A k \in Keys, g \in Gens : run'[<<k, g>>] \in {"none", "ended"} BY <2>1 DEF Jobs
  <2>3. OwnedInv' BY <2>2 DEF OwnedInv, Alive
  <2>4. BusyInv' BY <1>3 DEF Restart, BusyInv, Present
  <2>5. StatusInv' BY <1>3 DEF Restart, StatusInv
  <2>6. FilesInv' BY <1>3, <2>2 DEF Restart, IInv, FilesInv, TmpInv, ProxyIsWhole, Cached
  <2>7. Typed' BY <1>0, <1>3, <2>1 DEF Restart, Typed, ProxyTyped, RunTyped, FilesTyped, ViewerTyped, Phases
  <2>. QED BY <1>3, <2>3, <2>4, <2>5, <2>6, <2>7 DEF IInv, Restart, DoneClosesOnce
<1>. QED BY <1>1, <1>2, <1>3

LEMMA NextInv == IInv /\ [Next]_vars => IInv'
<1>1. ASSUME IInv, UNCHANGED vars PROVE IInv'
  BY <1>1, KeptSame, WorkKeeps DEF vars, IInv, Typed, ViewerTyped
<1>2. ASSUME IInv, Next PROVE IInv'
  BY <1>2, ViewerStreams, LeasesChange, ViewersEnsure, RunKeeps, SweepersKeep, TroubleKeeps DEF Next, ViewerStep
<1>. QED BY <1>1, <1>2

-----------------------------------------------------------------------------
(* The theorems                                                            *)

\* A runtime shown as queued or transcoding has a goroutine at it, so a viewer
\* that joins it does not wait for nobody, and a video shown as being
\* transcoded is (video_proxy.go 259-274, 768-799).
THEOREM BusyRuntimesRun == Spec => []BusyHasRun
<1>1. IInv => BusyHasRun
  <2>1. ASSUME NEW j \in Jobs, run[j] \in Working PROVE Alive(j) BY <2>1 DEF Working, Alive
  <2>. QED BY <2>1 DEF IInv, BusyInv, StatusInv, Worked, BusyHasRun
<1>. QED BY <1>1, InitInv, NextInv, PTL DEF Spec

\* The file served as finished is the whole output of a transcode, unless the
\* key's runtime or files went away under a goroutine (video_proxy.go 741-767).
THEOREM FinishedProxiesAreWhole == Spec => []ProxyIsWhole
<1>1. IInv => ProxyIsWhole BY DEF IInv, FilesInv
<1>. QED BY <1>1, InitInv, NextInv, PTL DEF Spec

\* No Done is closed twice unless that happened (video_proxy.go 768-799).
THEOREM DoneIsClosedOnce == Spec => []DoneClosesOnce
<1>1. IInv => DoneClosesOnce BY DEF IInv
<1>. QED BY <1>1, InitInv, NextInv, PTL DEF Spec

=============================================================================
