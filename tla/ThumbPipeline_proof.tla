------------------------- MODULE ThumbPipeline_proof -------------------------
(***************************************************************************)
(* Proofs about ThumbPipeline: its types, that a ready row has its         *)
(* thumbnail unless its key changed under a job, and that a served         *)
(* thumbnail is whole where the user never stops thumbnail creation. The   *)
(* only assumption is ConstantsAssumption, with MaxStops = 0 for the last. *)
(***************************************************************************)
EXTENDS ThumbPipeline, TLAPS

USE DEF Version, Attempt, jobVars, queueVars

Jobs == [asset : Asset, attempt : Attempt, key : Version \cup {0}]
AtKey == {"marking", "starting", "rendering", "publishing", "readying"}
Status == {"pending", "processing", "ready", "error"}
Phase == {"idle", "popped", "loading", "marking", "starting", "rendering",
          "publishing", "readying", "finished", "released"}
Result == {"none", "ok", "failed", "dropped", "preempted", "stopped"}

-----------------------------------------------------------------------------
(* Types: those of TypeOK, the counters, and the job of a busy worker      *)

SpentOK == spent \in [scans : Nat, fetches : Nat, stops : Nat, restarts : Nat, outages : Nat]
JobsOK == \A w \in Worker :
    /\ wpc[w] # "idle" => job[w] \in Jobs
    /\ wpc[w] \in AtKey => job[w].key \in Version
Typed == TypeOK /\ SpentOK /\ JobsOK

RowType == row \in [Asset -> [key : Version, status : Status]]
ThumbType == thumb \in [Asset -> [Version -> {"none", "whole", "torn"} \cup Worker]]
TmpType == tmp \in [Asset -> [Version -> {"none"} \cup Worker]]
JobType == job \in [Worker -> Jobs \cup {NoJob}]
WorkerTypes ==
    /\ wpc \in [Worker -> Phase] /\ rendered \in [Worker -> BOOLEAN]
    /\ cause \in [Worker -> {"none", "preempted", "stopped"}] /\ result \in [Worker -> Result]
QueueTypes == queue \subseteq Asset \X Attempt /\ claimed \subseteq Asset /\ delayed \subseteq Asset \X Attempt
OtherTypes ==
    /\ file \in [Asset -> Version] /\ mounted \in BOOLEAN /\ scan \in BOOLEAN
    /\ toEnqueue \subseteq Asset /\ sweep \subseteq Asset /\ fetching \subseteq Asset \X Version
    /\ stop \in {"no", "cancel", "requeue", "stopped"} /\ raced \in [Asset -> BOOLEAN]

LEMMA TypeParts ==
    TypeOK <=> RowType /\ ThumbType /\ TmpType /\ JobType /\ WorkerTypes /\ QueueTypes /\ OtherTypes
BY DEF TypeOK, RowType, ThumbType, TmpType, JobType, WorkerTypes, QueueTypes, OtherTypes, Status, Phase, Result, Jobs

LEMMA TypePartsNext ==
    TypeOK' <=> RowType' /\ ThumbType' /\ TmpType' /\ JobType' /\ WorkerTypes' /\ QueueTypes' /\ OtherTypes'
BY DEF TypeOK, RowType, ThumbType, TmpType, JobType, WorkerTypes, QueueTypes, OtherTypes, Status, Phase, Result, Jobs

LEMMA EnqueueTyped ==
    ASSUME QueueTypes, NEW a \in Asset, NEW n \in Attempt, Enqueue(a, n)
    PROVE  queue' \subseteq Asset \X Attempt /\ claimed' \subseteq Asset
BY DEF QueueTypes, Enqueue

LEMMA StatusTyped ==
    ASSUME RowType, NEW a \in Asset, NEW s \in Status, SetStatus(a, s)
    PROVE  RowType'
BY DEF RowType, SetStatus

LEMMA InitTyped == Init => Typed
<1>1. 0 \in Attempt /\ 1 \in Version BY ConstantsAssumption
<1>2. ASSUME Init PROVE RowType /\ ThumbType /\ TmpType /\ JobType
  BY <1>1, <1>2 DEF Init, RowType, ThumbType, TmpType, JobType, Status
<1>3. ASSUME Init PROVE WorkerTypes /\ QueueTypes /\ OtherTypes
  BY <1>1, <1>3 DEF Init, WorkerTypes, QueueTypes, OtherTypes, Phase, Result
<1>4. Init => SpentOK /\ JobsOK BY DEF Init, SpentOK, JobsOK, AtKey
<1>. QED BY <1>2, <1>3, <1>4, TypeParts DEF Typed

LEMMA FailedStatusTyped == ASSUME NEW w PROVE FailedStatus(w) \in Status
BY DEF FailedStatus, Status

LEMMA WorkerTyped ==
    ASSUME Typed, NEW w \in Worker, WorkerStep(w) \/ Preempt(w)
    PROVE  Typed'
<1>0. /\ RowType /\ ThumbType /\ TmpType /\ JobType /\ WorkerTypes /\ QueueTypes /\ OtherTypes
      /\ wpc[w] # "idle" => job[w] \in Jobs /\ job[w].asset \in Asset /\ job[w].attempt \in Attempt
      /\ wpc[w] \in AtKey => job[w].key \in Version /\ job[w].asset \in Asset
  BY TypeParts DEF Typed, JobsOK, Jobs, AtKey
<1>1. SpentOK' /\ OtherTypes'
  BY <1>0 DEF Typed, OtherTypes, SpentOK, WorkerStep, Preempt, Pop, Start, Load, MarkProcessing, StartRender,
              EndRender, RenderFails, Publish, SetReady, Release, Requeue
<1>2. RowType'
  <2>1. CASE UNCHANGED row BY <1>0, <2>1 DEF RowType
  <2>2. CASE \E s \in Status : SetStatus(job[w].asset, s) /\ wpc[w] # "idle" BY <1>0, <2>2, StatusTyped
  <2>. QED BY <2>1, <2>2, FailedStatusTyped
           DEF WorkerStep, Preempt, Pop, Start, Load, MarkProcessing, StartRender, EndRender, RenderFails,
               Publish, SetReady, Release, Requeue, Status
<1>3. ThumbType'
  <2>1. CASE UNCHANGED thumb BY <1>0, <2>1 DEF ThumbType
  <2>2. CASE \E x \in {"none", "whole", "torn"} \cup Worker :
                 wpc[w] \in AtKey /\ thumb' = [thumb EXCEPT ![job[w].asset][job[w].key] = x]
    BY <1>0, <2>2 DEF ThumbType
  <2>3. CASE EndRender(w) BY <1>0, <2>3 DEF EndRender, ThumbType, AtKey
  <2>4. CASE RenderFails(w) BY <1>0, <2>4 DEF RenderFails, ThumbType, AtKey
  <2>5. CASE Publish(w)
    <3>1. tmp[job[w].asset][job[w].key] \in {"none"} \cup Worker BY <1>0, <2>5 DEF Publish, TmpType, AtKey
    <3>. QED BY <2>1, <2>2, <2>5, <3>1 DEF Publish, AtKey
  <2>. QED BY <2>1, <2>3, <2>4, <2>5
           DEF WorkerStep, Preempt, Pop, Start, Load, MarkProcessing, StartRender, SetReady, Release, Requeue
<1>4. TmpType'
  <2>1. CASE UNCHANGED tmp BY <1>0, <2>1 DEF TmpType
  <2>2. CASE \E x \in {"none"} \cup Worker :
                 wpc[w] \in AtKey /\ tmp' = [tmp EXCEPT ![job[w].asset][job[w].key] = x]
    BY <1>0, <2>2 DEF TmpType
  <2>. QED BY <2>1, <2>2
           DEF WorkerStep, Preempt, Pop, Start, Load, MarkProcessing, StartRender, EndRender, RenderFails,
               Publish, SetReady, Release, Requeue, AtKey
<1>5. JobType' /\ JobsOK'
  <2>1. CASE UNCHANGED job /\ (wpc' = wpc \/ \E p \in Phase : Goto(w, p) /\ wpc[w] # "idle"
                                                  /\ (p \in AtKey => wpc[w] \in AtKey))
    BY <1>0, <2>1 DEF JobType, JobsOK, Typed, Goto, WorkerTypes, AtKey
  <2>2. CASE Pop(w)
    <3>1. PICK e \in queue : job' = [job EXCEPT ![w] = [asset |-> e[1], attempt |-> e[2], key |-> 0]]
      BY <2>2 DEF Pop
    <3>2. [asset |-> e[1], attempt |-> e[2], key |-> 0] \in Jobs BY <1>0, <3>1 DEF Jobs, QueueTypes
    <3>. QED BY <1>0, <2>2, <3>1, <3>2 DEF Pop, JobType, JobsOK, Typed, Goto, WorkerTypes, AtKey
  <2>3. CASE Load(w)
    <3>1. CASE UNCHANGED job /\ Goto(w, "finished") BY <1>0, <2>3, <3>1
       DEF Load, JobType, JobsOK, Typed, Goto, Return, WorkerTypes, AtKey
    <3>2. CASE job' = [job EXCEPT ![w].key = row[job[w].asset].key]
      <4>1. row[job[w].asset].key \in Version BY <1>0, <2>3 DEF Load, RowType
      <4>2. [job[w] EXCEPT !.key = row[job[w].asset].key] \in Jobs BY <1>0, <2>3, <4>1 DEF Jobs, Load
      <4>3. [job[w] EXCEPT !.key = row[job[w].asset].key].key \in Version BY <1>0, <2>3, <4>1 DEF Jobs, Load
      <4>4. job' = [job EXCEPT ![w] = [job[w] EXCEPT !.key = row[job[w].asset].key]]
        BY <1>0, <3>2 DEF JobType
      <4>5. \A v \in Worker : v # w => wpc'[v] = wpc[v] BY <1>0, <2>3 DEF Load, Goto, Return, WorkerTypes
      <4>. QED BY <1>0, <4>2, <4>3, <4>4, <4>5 DEF JobType, JobsOK, Typed
    <3>. QED BY <2>3, <3>1, <3>2 DEF Load, Return
  <2>4. CASE Requeue(w) BY <1>0, <2>4 DEF Requeue, JobType, JobsOK, Typed, Goto, WorkerTypes, AtKey
  <2>. QED BY <2>1, <2>2, <2>3, <2>4
           DEF WorkerStep, Preempt, Start, MarkProcessing, StartRender, EndRender, RenderFails,
               Publish, SetReady, Release, Return, Phase, AtKey
<1>6. WorkerTypes'
  <2>1. \A v \in Worker : cause[v] \in Result /\ "stopped" \in Result BY <1>0 DEF WorkerTypes, Result
  <2>. QED BY <1>0, <2>1
     DEF WorkerTypes, Goto, Return, WorkerStep, Preempt, Pop, Start, Load, MarkProcessing, StartRender,
              EndRender, RenderFails, Publish, SetReady, Release, Requeue, Phase, Result
<1>7. QueueTypes'
  <2>1. CASE UNCHANGED <<queueVars, delayed>> BY <1>0, <2>1 DEF QueueTypes
  <2>2. CASE Pop(w) \/ Release(w) BY <1>0, <2>2 DEF QueueTypes, Pop, Release
  <2>3. CASE Requeue(w)
    <3>1. CASE Enqueue(job[w].asset, job[w].attempt) /\ UNCHANGED delayed
      BY <1>0, <2>3, <3>1, EnqueueTyped DEF Requeue, QueueTypes
    <3>2. CASE Retry(w) /\ UNCHANGED queueVars
      <4>1. job[w].attempt + 1 \in Attempt BY <1>0, <2>3, <3>2, ConstantsAssumption DEF Requeue, Retry
      <4>. QED BY <1>0, <2>3, <3>2, <4>1 DEF Requeue, Retry, QueueTypes
    <3>. QED BY <2>1, <2>3, <3>1, <3>2 DEF Requeue
  <2>. QED BY <2>1, <2>2, <2>3
           DEF WorkerStep, Preempt, Start, Load, MarkProcessing, StartRender, EndRender, RenderFails,
               Publish, SetReady
<1>. QED BY <1>1, <1>2, <1>3, <1>4, <1>5, <1>6, <1>7, TypePartsNext DEF Typed

LEMMA AssetTyped ==
    ASSUME Typed, NEW a \in Asset, AssetStep(a)
    PROVE  Typed'
<1>0. /\ RowType /\ ThumbType /\ TmpType /\ JobType /\ WorkerTypes /\ QueueTypes /\ OtherTypes
  BY TypeParts DEF Typed
<1>1. SpentOK' /\ JobsOK' /\ TmpType' /\ JobType' /\ WorkerTypes'
  BY <1>0 DEF Typed, SpentOK, JobsOK, TmpType, JobType, WorkerTypes, Spend, AssetStep, Modify, WriteAsset,
              ScanEnqueues, SweepEnqueues, FetchMisses, FetchRecovers
<1>2. RowType'
  <2>1. CASE WriteAsset(a)
    <3>1. [key |-> file[a], status |-> "pending"] \in [key : Version, status : Status]
      BY <1>0 DEF OtherTypes, Status
    <3>. QED BY <1>0, <2>1, <3>1 DEF WriteAsset, RowType
  <2>2. CASE SetStatus(a, "pending") BY <1>0, <2>2, StatusTyped DEF Status
  <2>3. CASE UNCHANGED row BY <1>0, <2>3 DEF RowType
  <2>. QED BY <2>1, <2>2, <2>3 DEF AssetStep, Modify, ScanEnqueues, SweepEnqueues, FetchMisses, FetchRecovers
<1>3. ThumbType'
  <2>1. CASE WriteAsset(a) BY <1>0, <2>1 DEF WriteAsset, ThumbType, RowType
  <2>2. CASE ~WriteAsset(a)
    BY <1>0, <2>2 DEF AssetStep, Modify, ScanEnqueues, SweepEnqueues, FetchMisses, FetchRecovers, ThumbType
  <2>. QED BY <2>1, <2>2
<1>4. QueueTypes'
  <2>1. 0 \in Attempt BY ConstantsAssumption
  <2>2. CASE Enqueue(a, 0) /\ UNCHANGED delayed BY <1>0, <2>1, <2>2, EnqueueTyped DEF QueueTypes
  <2>3. CASE UNCHANGED <<queueVars, delayed>> BY <1>0, <2>3 DEF QueueTypes
  <2>. QED BY <2>2, <2>3
     DEF AssetStep, Modify, WriteAsset, ScanEnqueues, SweepEnqueues, FetchMisses, FetchRecovers
<1>5. OtherTypes'
  <2>1. CASE Modify(a)
    <3>1. file[a] + 1 \in Version BY <1>0, <2>1, ConstantsAssumption DEF Modify, OtherTypes
    <3>. QED BY <1>0, <2>1, <3>1 DEF Modify, OtherTypes
  <2>2. CASE WriteAsset(a) BY <1>0, <2>2 DEF WriteAsset, OtherTypes
  <2>3. CASE ScanEnqueues(a) \/ SweepEnqueues(a) BY <1>0, <2>3 DEF ScanEnqueues, SweepEnqueues, OtherTypes
  <2>4. CASE FetchMisses(a) BY <1>0, <2>4 DEF FetchMisses, OtherTypes, RowType
  <2>5. CASE FetchRecovers(a) BY <1>0, <2>5 DEF FetchRecovers, OtherTypes
  <2>. QED BY <2>1, <2>2, <2>3, <2>4, <2>5 DEF AssetStep
<1>. QED BY <1>1, <1>2, <1>3, <1>4, <1>5, TypePartsNext DEF Typed

EnvStep == Unmount \/ Remount \/ BeginScan \/ EndScan \/ AbortScan \/ RetryFires \/ Supervise
           \/ StopClears \/ StopCancels \/ StopRequeues \/ Continue \/ Restart

LEMMA EnvTyped ==
    ASSUME Typed, EnvStep
    PROVE  Typed'
<1>0. /\ RowType /\ ThumbType /\ TmpType /\ JobType /\ WorkerTypes /\ QueueTypes /\ OtherTypes
  BY TypeParts DEF Typed
<1>. USE DEF EnvStep
<1>1. SpentOK'
  BY DEF Typed, SpentOK, Spend, Unmount, Remount, BeginScan, EndScan, AbortScan, RetryFires, Supervise,
         StopClears, StopCancels, StopRequeues, Continue, Restart
<1>2. JobType' /\ JobsOK'
  BY <1>0 DEF Typed, JobType,
       JobsOK, AtKey, Unmount, Remount, BeginScan, EndScan, AbortScan, RetryFires, Supervise,
         StopClears, StopCancels, StopRequeues, Continue, Restart
<1>3. RowType'
  <2>1. CASE StopRequeues \/ Continue
    <3>1. \A a \in Asset : [row[a] EXCEPT !.status = "pending"] \in [key : Version, status : Status]
      BY <1>0 DEF RowType, Status
    <3>. QED BY <1>0, <2>1, <3>1 DEF StopRequeues, Continue, RowType
  <2>2. CASE ~(StopRequeues \/ Continue)
    BY <1>0, <2>2 DEF RowType, Unmount, Remount, BeginScan, EndScan, AbortScan, RetryFires, Supervise,
                      StopClears, StopCancels, Restart
  <2>. QED BY <2>1, <2>2
<1>4. ThumbType' /\ TmpType'
  <2>1. CASE Restart
    <3>1. ThumbType' BY <1>0, <2>1 DEF ThumbType, Restart
    <3>2. TmpType' BY <1>0, <2>1 DEF TmpType, Restart
    <3>. QED BY <3>1, <3>2
  <2>2. CASE ~Restart
    <3>1. UNCHANGED <<thumb, tmp>>
      BY <2>2 DEF Unmount, Remount, BeginScan, EndScan, AbortScan, RetryFires, Supervise,
                  StopClears, StopCancels, StopRequeues, Continue
    <3>. QED BY <1>0, <3>1 DEF ThumbType, TmpType
  <2>. QED BY <2>1, <2>2
<1>5. WorkerTypes'
  <2>1. CASE Restart BY <1>0, <2>1 DEF WorkerTypes, Phase, Result, Restart
  <2>2. CASE StopCancels BY <1>0, <2>2 DEF WorkerTypes, Cancellable, StopCancels
  <2>3. CASE ~Restart /\ ~StopCancels
    <3>1. UNCHANGED <<wpc, rendered, cause, result>>
      BY <2>3 DEF Unmount, Remount, BeginScan, EndScan, AbortScan, RetryFires, Supervise,
                  StopClears, StopRequeues, Continue
    <3>. QED BY <1>0, <3>1 DEF WorkerTypes
  <2>. QED BY <2>1, <2>2, <2>3
<1>6. QueueTypes'
  <2>1. CASE RetryFires
    <3>1. PICK e \in delayed : delayed' = delayed \ {e} /\ Enqueue(e[1], e[2]) BY <2>1 DEF RetryFires
    <3>2. e[1] \in Asset /\ e[2] \in Attempt BY <1>0, <3>1 DEF QueueTypes
    <3>. QED BY <1>0, <3>1, <3>2, EnqueueTyped DEF QueueTypes
  <2>2. CASE ~RetryFires
    BY <1>0, <2>2 DEF QueueTypes, Unmount, Remount, BeginScan, EndScan, AbortScan, Supervise,
         StopClears, StopCancels, StopRequeues, Continue, Restart
  <2>. QED BY <2>1, <2>2
<1>7. OtherTypes'
  BY <1>0 DEF OtherTypes, PendingWork, Unmount, Remount, BeginScan, EndScan, AbortScan, RetryFires, Supervise,
         StopClears, StopCancels, StopRequeues, Continue, Restart
<1>. QED BY <1>1, <1>2, <1>3, <1>4, <1>5, <1>6, <1>7, TypePartsNext DEF Typed

LEMMA NextTyped == Typed /\ [Next]_vars => Typed'
<1>1. ASSUME Typed, UNCHANGED vars PROVE Typed'
  BY <1>1 DEF Typed, TypeOK, SpentOK, JobsOK, vars
<1>2. ASSUME Typed, Next PROVE Typed'
  BY <1>2, WorkerTyped, AssetTyped, EnvTyped DEF Next, EnvStep
<1>. QED BY <1>1, <1>2

(* Rows, files, entries and jobs keep their types.                         *)
THEOREM TypeCorrect == Spec => []TypeOK
<1>1. Typed => TypeOK BY DEF Typed
<1>. QED BY <1>1, InitTyped, NextTyped, PTL DEF Spec

-----------------------------------------------------------------------------
(* A ready row has its thumbnail                                           *)

HasThumb(a) == thumb[a][row[a].key] # "none"
AtCurrentKey(w) == job[w].key = row[job[w].asset].key

KeyInv == \A w \in Worker :
    wpc[w] \in AtKey /\ ~raced[job[w].asset] => AtCurrentKey(w)
FileInv == \A w \in Worker :
    wpc[w] = "readying" /\ ~raced[job[w].asset] => HasThumb(job[w].asset)
ReadyInv == KeyInv /\ FileInv /\ ReadyHasThumbUnlessRaced

\* A file that is there stays there, except where WriteAsset removes it.
FilesStay == \A a \in Asset, v \in Version : thumb[a][v] # "none" => thumb'[a][v] # "none"

LEMMA FilesStayAtWork ==
    ASSUME Typed, NEW w \in Worker, WorkerStep(w) \/ Preempt(w)
    PROVE  FilesStay
<1>0. /\ ThumbType /\ TmpType
      /\ wpc[w] \in AtKey => job[w].key \in Version /\ job[w].asset \in Asset
  BY TypeParts DEF Typed, JobsOK, Jobs, AtKey
<1>1. CASE UNCHANGED thumb BY <1>1 DEF FilesStay
<1>2. CASE \E x : x # "none" /\ wpc[w] \in AtKey
                  /\ thumb' = [thumb EXCEPT ![job[w].asset][job[w].key] = x]
  BY <1>0, <1>2 DEF FilesStay, ThumbType
<1>3. CASE EndRender(w) BY <1>0, <1>3 DEF EndRender, AtKey, FilesStay, ThumbType
<1>4. CASE RenderFails(w) BY <1>0, <1>4 DEF RenderFails, AtKey, FilesStay, ThumbType
<1>5. CASE Publish(w)
  <2>1. wpc[w] \in AtKey BY <1>5 DEF Publish, AtKey
  <2>. QED BY <1>0, <1>1, <1>2, <1>5, <2>1 DEF Publish
<1>. QED BY <1>1, <1>3, <1>4, <1>5
         DEF WorkerStep, Preempt, Pop, Start, Load, MarkProcessing, StartRender, SetReady, Release, Requeue

\* A worker's step leaves the keys of the rows and the history alone.
LEMMA KeysStayAtWork ==
    ASSUME Typed, NEW w \in Worker, WorkerStep(w) \/ Preempt(w)
    PROVE  (\A a \in Asset : row'[a].key = row[a].key) /\ raced' = raced
<1>0. RowType BY TypeParts DEF Typed
<1>1. raced' = raced
  BY DEF WorkerStep, Preempt, Pop, Start, Load, MarkProcessing, StartRender, EndRender, RenderFails, Publish,
         SetReady, Release, Requeue
<1>2. ASSUME NEW b, NEW s, SetStatus(b, s) PROVE \A a \in Asset : row'[a].key = row[a].key
  BY <1>0, <1>2 DEF SetStatus, RowType
<1>3. UNCHANGED row \/ \E b, s : SetStatus(b, s)
  BY DEF WorkerStep, Preempt, Pop, Start, Load, MarkProcessing, StartRender, EndRender, RenderFails, Publish,
         SetReady, Release, Requeue
<1>. QED BY <1>1, <1>2, <1>3

LEMMA ReadyAtWork ==
    ASSUME Typed, ReadyInv, NEW w \in Worker, WorkerStep(w) \/ Preempt(w)
    PROVE  ReadyInv'
<1>0. /\ RowType /\ ThumbType /\ TmpType /\ JobType /\ WorkerTypes
      /\ \A v \in Worker : wpc[v] # "idle" => job[v] \in Jobs /\ job[v].asset \in Asset
      /\ \A v \in Worker : wpc[v] \in AtKey => job[v].key \in Version /\ job[v].asset \in Asset
  BY TypeParts DEF Typed, JobsOK, Jobs, AtKey
<1>1. /\ \A a \in Asset : row'[a].key = row[a].key
      /\ raced' = raced
      /\ \A a \in Asset : HasThumb(a) => HasThumb(a)'
  BY <1>0, FilesStayAtWork, KeysStayAtWork DEF FilesStay, HasThumb, RowType
<1>2. \A v \in Worker : v # w => wpc'[v] = wpc[v] /\ job'[v] = job[v]
  BY <1>0 DEF WorkerTypes, JobType, Goto, Return, WorkerStep, Preempt, Pop, Start, Load, MarkProcessing, StartRender,
              EndRender, RenderFails, Publish, SetReady, Release, Requeue
<1>3. \A v \in Worker : v # w => (wpc[v] \in AtKey /\ ~raced[job[v].asset] => AtCurrentKey(v))'
                              /\ (wpc[v] = "readying" /\ ~raced[job[v].asset] => HasThumb(job[v].asset))'
  BY <1>0, <1>1, <1>2 DEF ReadyInv, KeyInv, FileInv, AtCurrentKey, AtKey
<1>4. (wpc[w] \in AtKey /\ ~raced[job[w].asset] => AtCurrentKey(w))'
  <2>1. CASE Load(w)
    <3>1. CASE wpc'[w] = "finished" BY <3>1 DEF AtKey
    <3>2. CASE job' = [job EXCEPT ![w].key = row[job[w].asset].key]
      <4>1. job'[w] = [job[w] EXCEPT !.key = row[job[w].asset].key] BY <1>0, <3>2 DEF JobType
      <4>2. job[w] \in Jobs BY <1>0, <2>1 DEF Load
      <4>3. job'[w].asset = job[w].asset /\ job'[w].key = row[job[w].asset].key BY <4>1, <4>2 DEF Jobs
      <4>4. job[w].asset \in Asset BY <4>2 DEF Jobs
      <4>. QED BY <1>1, <4>3, <4>4 DEF AtCurrentKey
    <3>. QED BY <1>0, <2>1, <3>1, <3>2 DEF Load, Return, Goto, WorkerTypes
  <2>2. CASE wpc'[w] \notin AtKey BY <2>2
  <2>3. CASE wpc[w] \in AtKey /\ job' = job BY <1>0, <1>1, <2>3 DEF ReadyInv, KeyInv, AtCurrentKey
  <2>. QED BY <1>0, <2>1, <2>2, <2>3
           DEF WorkerTypes, Goto, Return, WorkerStep, Preempt, Pop, Start, MarkProcessing, StartRender, EndRender,
               RenderFails, Publish, SetReady, Release, Requeue, AtKey
<1>5. (wpc[w] = "readying" /\ ~raced[job[w].asset] => HasThumb(job[w].asset))'
  <2>1. CASE Load(w)
    <3>1. CASE wpc'[w] # "readying" BY <3>1
    <3>2. CASE job' = [job EXCEPT ![w].key = row[job[w].asset].key] /\ HasThumb(job[w].asset)
      <4>1. job'[w] = [job[w] EXCEPT !.key = row[job[w].asset].key] BY <1>0, <3>2 DEF JobType
      <4>2. job[w] \in Jobs BY <1>0, <2>1 DEF Load
      <4>3. job'[w].asset = job[w].asset /\ job[w].asset \in Asset BY <4>1, <4>2 DEF Jobs
      <4>. QED BY <1>1, <3>2, <4>3
    <3>. QED BY <1>0, <2>1, <3>1, <3>2 DEF Load, Return, Goto, WorkerTypes, HasThumb
  <2>2. CASE Publish(w)
    <3>1. CASE wpc'[w] # "readying" BY <3>1
    <3>2. CASE wpc'[w] = "readying"
      <4>0. PICK x : x # "none" /\ thumb' = [thumb EXCEPT ![job[w].asset][job[w].key] = x]
        BY <1>0, <2>2, <3>2 DEF Publish, Return, Goto, WorkerTypes
      <4>1. thumb'[job[w].asset][job[w].key] # "none"
        BY <1>0, <2>2, <4>0 DEF Publish, ThumbType, AtKey
      <4>2. job' = job BY <2>2 DEF Publish
      <4>. QED BY <1>0, <1>1, <1>4, <2>2, <3>2, <4>1, <4>2 DEF AtKey, AtCurrentKey, HasThumb, Publish
    <3>. QED BY <3>1, <3>2
  <2>3. CASE wpc'[w] # "readying" BY <2>3
  <2>4. CASE wpc'[w] = wpc[w] /\ job' = job BY <1>0, <1>1, <2>4 DEF ReadyInv, FileInv, AtKey
  <2>. QED BY <1>0, <2>1, <2>2, <2>3, <2>4
           DEF WorkerTypes, Goto, Return, WorkerStep, Preempt, Pop, Start, MarkProcessing, StartRender, EndRender,
               RenderFails, SetReady, Release, Requeue
<1>6. ReadyHasThumbUnlessRaced'
  <2>1. SUFFICES ASSUME NEW a \in Asset, row'[a].status = "ready", ~raced[a] PROVE HasThumb(a)'
    BY <1>1 DEF ReadyHasThumbUnlessRaced, HasThumb
  <2>2. CASE row[a].status = "ready" BY <1>1, <2>1, <2>2 DEF ReadyInv, ReadyHasThumbUnlessRaced, HasThumb
  <2>3. CASE row[a].status # "ready"
    <3>0. \/ UNCHANGED row
          \/ \E s : SetStatus(job[w].asset, s) /\ s # "ready"
          \/ SetReady(w) /\ SetStatus(job[w].asset, "ready")
      BY DEF FailedStatus, WorkerStep, Preempt, Pop, Start, Load, MarkProcessing, StartRender, EndRender,
             RenderFails, Publish, SetReady, Release, Requeue
    <3>1. SetReady(w) /\ job[w].asset = a BY <1>0, <2>1, <2>3, <3>0 DEF RowType, SetStatus
    <3>. QED BY <1>1, <2>1, <3>1 DEF SetReady, ReadyInv, FileInv
  <2>. QED BY <2>2, <2>3
<1>. QED BY <1>3, <1>4, <1>5, <1>6 DEF ReadyInv, KeyInv, FileInv

LEMMA ReadyAtAsset ==
    ASSUME Typed, ReadyInv, NEW a \in Asset, AssetStep(a)
    PROVE  ReadyInv'
<1>0. /\ RowType /\ ThumbType /\ OtherTypes
      /\ \A v \in Worker : wpc[v] \in AtKey => job[v].asset \in Asset
  BY TypeParts DEF Typed, JobsOK, Jobs, AtKey
<1>1. UNCHANGED <<wpc, job>>
  BY DEF AssetStep, Modify, WriteAsset, ScanEnqueues, SweepEnqueues, FetchMisses, FetchRecovers
<1>2. CASE WriteAsset(a)
  <2>1. \A b \in Asset : b # a => row'[b] = row[b] /\ thumb'[b] = thumb[b] /\ raced'[b] = raced[b]
    BY <1>0, <1>2 DEF WriteAsset, RowType, ThumbType, OtherTypes
  <2>2. raced'[a] = (\E w \in Worker : Bound(w, a)) /\ row'[a].status = "pending"
    BY <1>0, <1>2 DEF WriteAsset, RowType, OtherTypes
  <2>3. \A w \in Worker : wpc[w] \in AtKey /\ job[w].asset = a => raced'[a]
    BY <2>2 DEF Bound, AtKey
  <2>. QED BY <1>0, <1>1, <2>1, <2>2, <2>3
           DEF ReadyInv, KeyInv, FileInv, ReadyHasThumbUnlessRaced, HasThumb, AtCurrentKey, AtKey
<1>3. CASE ~WriteAsset(a)
  <2>1. UNCHANGED <<thumb, raced>> /\ (UNCHANGED row \/ SetStatus(a, "pending"))
    BY <1>3 DEF AssetStep, Modify, ScanEnqueues, SweepEnqueues, FetchMisses, FetchRecovers
  <2>2. \A b \in Asset : row'[b].key = row[b].key /\ (row'[b].status = "ready" => row[b].status = "ready")
    BY <1>0, <2>1 DEF SetStatus, RowType
  <2>. QED BY <1>0, <1>1, <2>1, <2>2
           DEF ReadyInv, KeyInv, FileInv, ReadyHasThumbUnlessRaced, HasThumb, AtCurrentKey, AtKey
<1>. QED BY <1>2, <1>3

LEMMA ReadyAtEnv ==
    ASSUME Typed, ReadyInv, EnvStep
    PROVE  ReadyInv'
<1>0. /\ RowType /\ ThumbType
      /\ \A v \in Worker : wpc[v] \in AtKey => job[v].asset \in Asset
  BY TypeParts DEF Typed, JobsOK, Jobs, AtKey
<1>1. /\ raced' = raced
      /\ \A b \in Asset : row'[b].key = row[b].key /\ (row'[b].status = "ready" => row[b].status = "ready")
  BY <1>0 DEF EnvStep, RowType, Unmount, Remount, BeginScan, EndScan, AbortScan, RetryFires, Supervise,
              StopClears, StopCancels, StopRequeues, Continue, Restart
<1>2. CASE Restart
  <2>1. \A w \in Worker : wpc'[w] = "idle" BY <1>2 DEF Restart
  <2>2. \A b \in Asset : HasThumb(b) => HasThumb(b)' BY <1>0, <1>1, <1>2 DEF Restart, RowType, HasThumb
  <2>. QED BY <1>1, <2>1, <2>2 DEF ReadyInv, KeyInv, FileInv, ReadyHasThumbUnlessRaced, HasThumb, AtKey
<1>3. CASE ~Restart
  <2>1. UNCHANGED <<thumb, wpc, job>>
    BY <1>3 DEF EnvStep, Unmount, Remount, BeginScan, EndScan, AbortScan, RetryFires, Supervise,
                StopClears, StopCancels, StopRequeues, Continue
  <2>. QED BY <1>0, <1>1, <2>1
           DEF ReadyInv, KeyInv, FileInv, ReadyHasThumbUnlessRaced, HasThumb, AtCurrentKey, AtKey
<1>. QED BY <1>2, <1>3

(* ThumbPipeline!ReadyHasThumbUnlessRaced for any number of assets,        *)
(* workers, versions, stops, restarts and outages.                         *)
THEOREM ReadyRowsHaveThumbs == Spec => []ReadyHasThumbUnlessRaced
<1>1. Init => ReadyInv
  BY DEF Init, ReadyInv, KeyInv, FileInv, ReadyHasThumbUnlessRaced, AtKey
<1>2. ASSUME Typed, ReadyInv, UNCHANGED vars PROVE ReadyInv'
  BY <1>2 DEF ReadyInv, KeyInv, FileInv, ReadyHasThumbUnlessRaced, HasThumb, AtCurrentKey, AtKey, vars
<1>3. ASSUME Typed, ReadyInv, Next PROVE ReadyInv'
  BY <1>3, ReadyAtWork, ReadyAtAsset, ReadyAtEnv DEF Next, EnvStep
<1>4. ReadyInv => ReadyHasThumbUnlessRaced BY DEF ReadyInv
<1>. QED BY <1>1, <1>2, <1>3, <1>4, InitTyped, NextTyped, PTL DEF Spec

-----------------------------------------------------------------------------
(* Without a user stop the served thumbnail is whole                       *)

Holds(w) == wpc[w] \notin {"idle", "released"}

NoStop == stop = "no" /\ spent.stops \in Nat
HoldersInv ==
    /\ \A w \in Worker : Holds(w) => job[w].asset \in claimed
    /\ \A v, w \in Worker : Holds(v) /\ Holds(w) /\ job[v].asset = job[w].asset => v = w
QueueInv ==
    /\ \A e \in queue : e[1] \in claimed
    /\ \A e, f \in queue : e[1] = f[1] => e = f
    /\ \A e \in queue, w \in Worker : Holds(w) => job[w].asset # e[1]
TmpInv ==
    \A a \in Asset, v \in Version, w \in Worker : tmp[a][v] = w =>
        wpc[w] \in {"rendering", "publishing"} /\ job[w].asset = a /\ job[w].key = v
RenderedInv == \A w \in Worker : wpc[w] = "publishing" => rendered[w]
WholeInv == \A a \in Asset, v \in Version : thumb[a][v] \in {"none", "whole"}
StopFree == NoStop /\ HoldersInv /\ QueueInv /\ TmpInv /\ RenderedInv /\ WholeInv

\* Enqueue keeps the queue and its dedupe set together.
LEMMA EnqueueStopFree ==
    ASSUME HoldersInv, QueueInv, NEW a, NEW n, Enqueue(a, n), UNCHANGED <<wpc, job>>
    PROVE  HoldersInv' /\ QueueInv'
<1>1. CASE a \in claimed
  BY <1>1 DEF Enqueue, HoldersInv, QueueInv, Holds
<1>2. CASE a \notin claimed
  <2>1. queue' = queue \cup {<<a, n>>} /\ claimed' = claimed \cup {a} BY <1>2 DEF Enqueue
  <2>2. \A e \in queue : e[1] # a BY <1>2 DEF QueueInv
  <2>3. \A w \in Worker : Holds(w) => job[w].asset # a BY <1>2 DEF HoldersInv
  <2>4. \A e \in queue' : e \in queue \/ (e = <<a, n>> /\ e[1] = a) BY <2>1
  <2>5. \A w \in Worker : Holds(w)' <=> Holds(w) BY DEF Holds
  <2>. QED BY <2>1, <2>2, <2>3, <2>4, <2>5 DEF HoldersInv, QueueInv
<1>. QED BY <1>1, <1>2

LEMMA QueueAtWork ==
    ASSUME Typed, StopFree, NEW w \in Worker, WorkerStep(w) \/ Preempt(w)
    PROVE  HoldersInv' /\ QueueInv'
<1>0. /\ JobType /\ WorkerTypes /\ QueueTypes /\ HoldersInv /\ QueueInv
      /\ \A v \in Worker : wpc[v] # "idle" => job[v] \in Jobs
  BY TypeParts DEF Typed, JobsOK, StopFree
<1>1. CASE Pop(w)
  <2>1. PICK e \in queue : /\ queue' = queue \ {e}
                           /\ job' = [job EXCEPT ![w] = [asset |-> e[1], attempt |-> e[2], key |-> 0]]
    BY <1>1 DEF Pop
  <2>2. /\ claimed' = claimed /\ ~Holds(w) /\ job'[w].asset = e[1]
        /\ \A v \in Worker : v # w => job'[v] = job[v] /\ (Holds(v)' <=> Holds(v))
    BY <1>0, <1>1, <2>1 DEF Pop, Goto, WorkerTypes, JobType, Holds
  <2>3. HoldersInv' BY <1>0, <2>1, <2>2 DEF HoldersInv, QueueInv
  <2>4. QueueInv' BY <1>0, <2>1, <2>2 DEF HoldersInv, QueueInv
  <2>. QED BY <2>3, <2>4
<1>2. CASE Release(w)
  <2>1. /\ claimed' = claimed \ {job[w].asset} /\ UNCHANGED <<queue, job>> /\ Holds(w) /\ ~Holds(w)'
        /\ \A v \in Worker : v # w => (Holds(v)' <=> Holds(v))
    BY <1>0, <1>2 DEF Release, Goto, WorkerTypes, Holds
  <2>2. \A v \in Worker : Holds(v)' => job'[v].asset # job[w].asset
    BY <1>0, <2>1 DEF HoldersInv
  <2>. QED BY <1>0, <2>1, <2>2 DEF HoldersInv, QueueInv
<1>3. CASE Requeue(w)
  <2>1. /\ ~Holds(w) /\ ~Holds(w)'
        /\ \A v \in Worker : v # w => job'[v] = job[v] /\ (Holds(v)' <=> Holds(v))
    BY <1>0, <1>3 DEF Requeue, Goto, WorkerTypes, JobType, Holds
  <2>2. CASE UNCHANGED queueVars BY <1>0, <2>1, <2>2 DEF HoldersInv, QueueInv
  <2>3. CASE Enqueue(job[w].asset, job[w].attempt)
    <3>1. CASE job[w].asset \in claimed BY <2>2, <2>3, <3>1 DEF Enqueue
    <3>2. CASE job[w].asset \notin claimed
      <4>0. DEFINE a == job[w].asset
                   n == job[w].attempt
      <4>1. queue' = queue \cup {<<a, n>>} /\ claimed' = claimed \cup {a} BY <2>3, <3>2 DEF Enqueue
      <4>2. \A e \in queue : e[1] # a BY <1>0, <3>2 DEF QueueInv
      <4>3. \A v \in Worker : Holds(v)' => job'[v].asset # a BY <1>0, <2>1, <3>2 DEF HoldersInv
      <4>4. \A e \in queue' : e \in queue \/ (e = <<a, n>> /\ e[1] = a) BY <4>1
      <4>5. \A v \in Worker : Holds(v)' => Holds(v) /\ job'[v] = job[v] BY <2>1
      <4>6. HoldersInv' BY <1>0, <4>1, <4>5 DEF HoldersInv
      <4>7. \A e \in queue' : e[1] \in claimed' BY <1>0, <4>1, <4>4 DEF QueueInv
      <4>8. \A e, f \in queue' : e[1] = f[1] => e = f BY <1>0, <4>2, <4>4 DEF QueueInv
      <4>9. \A e \in queue', v \in Worker : Holds(v)' => job'[v].asset # e[1]
        BY <1>0, <4>3, <4>4, <4>5 DEF QueueInv
      <4>. QED BY <4>6, <4>7, <4>8, <4>9 DEF QueueInv
    <3>. QED BY <3>1, <3>2
  <2>. QED BY <1>3, <2>2, <2>3 DEF Requeue
<1>4. CASE UNCHANGED queueVars /\ Holds(w) /\ Holds(w)'
           /\ \A v \in Worker : job'[v].asset = job[v].asset /\ (v # w => (Holds(v)' <=> Holds(v)))
  BY <1>0, <1>4 DEF HoldersInv, QueueInv
<1>5. CASE Load(w)
  <2>1. \A v \in Worker : job'[v].asset = job[v].asset
    <3>1. CASE job' = job BY <3>1
    <3>2. CASE job' = [job EXCEPT ![w].key = row[job[w].asset].key]
      BY <1>0, <1>5, <3>2 DEF Load, JobType, Jobs
    <3>. QED BY <1>5, <3>1, <3>2 DEF Load
  <2>. QED BY <1>0, <1>4, <1>5, <2>1 DEF Load, Goto, Return, Holds, WorkerTypes
<1>6. CASE Preempt(w) BY <1>0, <1>6 DEF Preempt, HoldersInv, QueueInv, Holds
<1>. QED BY <1>0, <1>1, <1>2, <1>3, <1>4, <1>5, <1>6
         DEF WorkerStep, Start, MarkProcessing, StartRender, EndRender, RenderFails, Publish, SetReady,
             Goto, Return, Holds, WorkerTypes

LEMMA FilesAtWork ==
    ASSUME Typed, StopFree, NEW w \in Worker, WorkerStep(w) \/ Preempt(w)
    PROVE  TmpInv' /\ RenderedInv' /\ WholeInv'
<1>0. /\ JobType /\ WorkerTypes /\ ThumbType /\ TmpType
      /\ HoldersInv /\ TmpInv /\ RenderedInv /\ WholeInv
      /\ wpc[w] \in AtKey => job[w].asset \in Asset /\ job[w].key \in Version
      /\ w \notin {"none", "whole", "torn"}
      /\ \A a \in Asset, v \in Version : thumb[a][v] # w
  BY TypeParts, ConstantsAssumption DEF Typed, JobsOK, StopFree, Jobs, AtKey, WholeInv
<1>1. \A v \in Worker : v # w => wpc'[v] = wpc[v] /\ job'[v] = job[v] /\ rendered'[v] = rendered[v]
  BY <1>0 DEF WorkerTypes, JobType, Goto, Return, WorkerStep, Preempt, Pop, Start, Load, MarkProcessing,
              StartRender, EndRender, RenderFails, Publish, SetReady, Release, Requeue
<1>2. TmpInv'
  <2>1. CASE tmp' = tmp /\ wpc[w] \notin {"rendering", "publishing"} BY <1>0, <1>1, <2>1 DEF TmpInv
  <2>2. CASE StartRender(w)
    BY <1>0, <1>1, <2>2 DEF TmpInv, TmpType, StartRender, Goto, WorkerTypes, AtKey
  <2>3. CASE EndRender(w) BY <1>0, <1>1, <2>3 DEF TmpInv, EndRender, Goto, WorkerTypes
  <2>4. CASE RenderFails(w) \/ Publish(w)
    <3>1. tmp' = [tmp EXCEPT ![job[w].asset][job[w].key] = "none"] /\ wpc[w] \in AtKey
      BY <2>4 DEF RenderFails, Publish, AtKey
    <3>2. \A a \in Asset, v \in Version : tmp'[a][v] # w
      <4>1. TAKE a \in Asset, v \in Version
      <4>2. CASE a = job[w].asset /\ v = job[w].key BY <1>0, <3>1, <4>2 DEF TmpType
      <4>3. CASE ~(a = job[w].asset /\ v = job[w].key)
        <5>1. tmp'[a][v] = tmp[a][v] BY <1>0, <3>1, <4>3 DEF TmpType
        <5>. QED BY <1>0, <4>3, <5>1 DEF TmpInv
      <4>. QED BY <4>2, <4>3
    <3>3. \A a \in Asset, v \in Version, x \in Worker : tmp'[a][v] = x => tmp[a][v] = x
      BY <1>0, <3>1, ConstantsAssumption DEF TmpType
    <3>. QED BY <1>0, <1>1, <3>2, <3>3 DEF TmpInv
  <2>5. CASE Preempt(w) BY <1>0, <2>5 DEF Preempt, TmpInv
  <2>. QED BY <2>1, <2>2, <2>3, <2>4, <2>5
           DEF WorkerStep, Pop, Start, Load, MarkProcessing, SetReady, Release, Requeue
<1>3. RenderedInv'
  <2>1. (wpc[w] = "publishing" => rendered[w])'
    <3>1. CASE EndRender(w) BY <1>0, <3>1 DEF EndRender, WorkerTypes
    <3>2. CASE wpc'[w] # "publishing" BY <3>2
    <3>3. CASE Preempt(w) BY <1>0, <3>3 DEF Preempt, RenderedInv
    <3>. QED BY <1>0, <3>1, <3>2, <3>3
             DEF Goto, Return, WorkerTypes, WorkerStep, Pop, Start, Load, MarkProcessing, StartRender, RenderFails,
                 Publish, SetReady, Release, Requeue
  <2>. QED BY <1>0, <1>1, <2>1 DEF RenderedInv
<1>4. WholeInv'
  <2>1. CASE UNCHANGED thumb BY <1>0, <2>1 DEF WholeInv
  <2>2. CASE thumb' = [thumb EXCEPT ![job[w].asset][job[w].key] = "whole"] /\ wpc[w] \in AtKey
    BY <1>0, <2>2 DEF WholeInv, ThumbType
  <2>3. CASE EndRender(w) BY <1>0, <2>3 DEF EndRender, WholeInv, ThumbType, AtKey
  <2>4. CASE RenderFails(w) BY <1>0, <2>4 DEF RenderFails, WholeInv, ThumbType, AtKey
  <2>5. CASE Publish(w)
    <3>0. wpc[w] = "publishing" /\ wpc[w] \in AtKey BY <2>5 DEF Publish, AtKey
    <3>1. DEFINE owner == tmp[job[w].asset][job[w].key]
    <3>2. ASSUME owner # "none" PROVE rendered[owner]
      <4>1. owner \in Worker BY <1>0, <3>0, <3>2 DEF TmpType
      <4>2. Holds(owner) /\ job[owner].asset = job[w].asset BY <1>0, <3>0, <4>1 DEF TmpInv, Holds
      <4>3. owner = w BY <1>0, <3>0, <4>1, <4>2 DEF HoldersInv, Holds
      <4>. QED BY <1>0, <3>0, <4>3 DEF RenderedInv
    <3>. QED BY <2>1, <2>2, <2>5, <3>0, <3>2 DEF Publish
  <2>. QED BY <2>1, <2>3, <2>4, <2>5
           DEF WorkerStep, Preempt, Pop, Start, Load, MarkProcessing, StartRender, SetReady, Release, Requeue
<1>. QED BY <1>2, <1>3, <1>4

LEMMA StopFreeAtAsset ==
    ASSUME Typed, StopFree, NEW a \in Asset, AssetStep(a)
    PROVE  StopFree'
<1>0. RowType /\ ThumbType BY TypeParts DEF Typed
<1>1. NoStop'
  BY DEF StopFree, NoStop, Typed, SpentOK, Spend, AssetStep, Modify, WriteAsset, ScanEnqueues, SweepEnqueues,
         FetchMisses, FetchRecovers
<1>2. UNCHANGED <<wpc, job, tmp, rendered>>
  BY DEF AssetStep, Modify, WriteAsset, ScanEnqueues, SweepEnqueues, FetchMisses, FetchRecovers
<1>3. HoldersInv' /\ QueueInv'
  <2>1. CASE Enqueue(a, 0) BY <1>2, <2>1, EnqueueStopFree DEF StopFree
  <2>2. CASE UNCHANGED queueVars BY <1>2, <2>2 DEF StopFree, HoldersInv, QueueInv, Holds
  <2>. QED BY <2>1, <2>2
           DEF AssetStep, Modify, WriteAsset, ScanEnqueues, SweepEnqueues, FetchMisses, FetchRecovers
<1>4. TmpInv' /\ RenderedInv' BY <1>2 DEF StopFree, TmpInv, RenderedInv
<1>5. WholeInv'
  <2>1. CASE WriteAsset(a) BY <1>0, <2>1 DEF WriteAsset, StopFree, WholeInv, ThumbType, RowType
  <2>2. CASE UNCHANGED thumb BY <2>2 DEF StopFree, WholeInv
  <2>. QED BY <2>1, <2>2 DEF AssetStep, Modify, ScanEnqueues, SweepEnqueues, FetchMisses, FetchRecovers
<1>. QED BY <1>1, <1>3, <1>4, <1>5 DEF StopFree

LEMMA StopFreeAtEnv ==
    ASSUME MaxStops = 0, Typed, StopFree, EnvStep
    PROVE  StopFree'
<1>0. RowType /\ ThumbType /\ TmpType /\ spent.stops \in Nat BY TypeParts DEF Typed, SpentOK
<1>1. ~StopClears /\ ~StopCancels /\ ~StopRequeues /\ ~Continue
  BY <1>0 DEF StopFree, NoStop, StopClears, StopCancels, StopRequeues, Continue
<1>2. NoStop'
  BY <1>1 DEF StopFree, NoStop, Typed, SpentOK, Spend, EnvStep, Unmount, Remount, BeginScan, EndScan, AbortScan,
              RetryFires, Supervise, Restart
<1>3. CASE Restart
  <2>1. /\ \A w \in Worker : ~Holds(w)' /\ wpc'[w] = "idle"
        /\ queue' = {}
    BY <1>3 DEF Restart, Holds
  <2>2. HoldersInv' /\ QueueInv' BY <2>1 DEF HoldersInv, QueueInv
  <2>3. \A b \in Asset, v \in Version : tmp'[b][v] = "none" BY <1>3 DEF Restart
  <2>4. TmpInv' BY <2>3, ConstantsAssumption DEF TmpInv
  <2>5. RenderedInv' BY <2>1 DEF RenderedInv
  <2>6. WholeInv' BY <1>0, <1>3, ConstantsAssumption DEF Restart, StopFree, WholeInv
  <2>. QED BY <1>2, <2>2, <2>4, <2>5, <2>6 DEF StopFree
<1>4. CASE ~Restart
  <2>1. UNCHANGED <<wpc, job, tmp, rendered, thumb>>
    BY <1>1, <1>4 DEF EnvStep, Unmount, Remount, BeginScan, EndScan, AbortScan, RetryFires, Supervise
  <2>2. HoldersInv' /\ QueueInv'
    <3>1. CASE \E a, n : Enqueue(a, n) BY <2>1, <3>1, EnqueueStopFree DEF StopFree
    <3>2. CASE UNCHANGED queueVars BY <2>1, <3>2 DEF StopFree, HoldersInv, QueueInv, Holds
    <3>. QED BY <1>1, <1>4, <3>1, <3>2
             DEF EnvStep, Unmount, Remount, BeginScan, EndScan, AbortScan, RetryFires, Supervise
  <2>3. TmpInv' /\ RenderedInv' /\ WholeInv' BY <2>1 DEF StopFree, TmpInv, RenderedInv, WholeInv
  <2>. QED BY <1>2, <2>2, <2>3 DEF StopFree
<1>. QED BY <1>3, <1>4

(* Where the user never stops thumbnail creation, no two jobs write the    *)
(* temporary file of one key (thumb.go 708-734) and a served thumbnail is  *)
(* whole, whatever the scans, preemptions, retries, requests, restarts.    *)
THEOREM ServedThumbsAreWhole ==
    ASSUME MaxStops = 0
    PROVE  Spec => []ServedThumbIsWhole
<1>1. Init => StopFree
  BY ConstantsAssumption
     DEF Init, StopFree, NoStop, HoldersInv, QueueInv, TmpInv, RenderedInv, WholeInv, Holds
<1>2. ASSUME Typed, StopFree, UNCHANGED vars PROVE StopFree'
  BY <1>2 DEF StopFree, NoStop, HoldersInv, QueueInv, TmpInv, RenderedInv, WholeInv, Holds, vars
<1>3. ASSUME Typed, StopFree, Next PROVE StopFree'
  <2>1. ASSUME NEW w \in Worker, WorkerStep(w) \/ Preempt(w) PROVE StopFree'
    <3>1. NoStop'
      BY <1>3, <2>1 DEF StopFree, NoStop, WorkerStep, Preempt, Pop, Start, Load, MarkProcessing, StartRender,
                        EndRender, RenderFails, Publish, SetReady, Release, Requeue
    <3>. QED BY <1>3, <2>1, <3>1, QueueAtWork, FilesAtWork DEF StopFree
  <2>. QED BY <1>3, <2>1, StopFreeAtAsset, StopFreeAtEnv DEF Next, EnvStep
<1>4. Typed /\ StopFree => ServedThumbIsWhole
  <2>1. Typed => RowType BY TypeParts DEF Typed
  <2>. QED BY <2>1 DEF StopFree, WholeInv, ServedThumbIsWhole, RowType
<1>. QED BY <1>1, <1>2, <1>3, <1>4, InitTyped, NextTyped, PTL DEF Spec

=============================================================================
