-------------------------- MODULE AIPipeline_proof --------------------------
(***************************************************************************)
(* Proofs about AIPipeline, for any assets, workers, nodes and bounds:     *)
(* what is in processing is held, a result is recorded for the frames it   *)
(* was computed from, and no handler halts another handler's analysis.     *)
(*                                                                         *)
(* The steps are sorted by what they may do to a handler: a handler at     *)
(* work moves on or leaves (Handled), a handler begins or ends, or the     *)
(* handlers keep their work (WorkKept).                                    *)
(***************************************************************************)
EXTENDS AIPipeline, TLAPS

WorkerType == [at : Phases \cup {"idle"}, task : Task \cup {None}, key : Keys,
               node : Nodes \cup {None}, tried : SUBSET Nodes,
               cause : {"", "priority", "stopped"}, out : Outcomes,
               staged : BOOLEAN, stale : BOOLEAN]
RowType == [key : Keys, attempts : Nat,
            status : {"none", "pending", "processing", "failed", "ready"}]
StageType == [key : 0 .. MaxKey, state : {"ready", "processing"}]

WorkersTyped == w \in [Workers -> WorkerType]
RowsTyped == row \in [Assets -> RowType] /\ basis \in [Assets -> 0 .. MaxKey]
StagesTyped == stage \in [Assets -> StageType]
TasksTyped == queue \subseteq Task /\ delayed \subseteq Task
\* What the loop prepares is chosen when it begins.
FillTyped ==
    /\ fill = [at |-> fill.at, asset |-> fill.asset, key |-> fill.key, old |-> fill.old]
    /\ fill.at \in {"extract", "result"} =>
         fill.asset \in Assets /\ fill.key \in Keys /\ fill.old \in Keys
RestTyped == key \in [Assets -> Keys] /\ slot \in [Nodes -> Workers \cup {None}]
Typed == WorkersTyped /\ RowsTyped /\ StagesTyped /\ TasksTyped /\ FillTyped /\ RestTyped

\* A worker that waits has no stage, and one at work has its task.
IdleInv == \A x \in Workers :
    /\ Idle(x) => ~w[x].staged
    /\ ~Idle(x) => w[x].task \in Task

Reports(x, a, k) == w[x].at \in Reporting /\ w[x].task.asset = a /\ w[x].key = k
RowHeld == \A a \in Assets : row[a].status = "processing" =>
    a \in lost \/ \E x \in Workers : Reports(x, a, row[a].key)
StageHeld == \A a \in Assets : stage[a].key # 0 /\ stage[a].state = "processing" =>
    \E x \in Workers : Holds(x, a, stage[a].key)

\* Between acquireNode and the release a node belongs to one handler.
HasNode == Phases \ {"node", "return"}
SlotInv == \A x \in Workers :
    w[x].at \in HasNode => w[x].node \in Nodes /\ slot[w[x].node] = x

IInv == Typed /\ IdleInv /\ RowHeld /\ StageHeld /\ ReadyMatchesInput /\ SlotInv

LEMMA Bounds == /\ MaxKey \in Nat \ {0} /\ AttemptCap \in Nat /\ None \notin Workers
                /\ 1 \in Keys /\ Keys \subseteq 0 .. MaxKey /\ 0 \in 0 .. MaxKey /\ 0 \notin Keys
<1>1. MaxKey \in Nat \ {0} /\ AIMaxAttempts \in Nat /\ None \notin Workers
  BY ConstantsAssumption DEF ConstantsAssumption
<1>. QED BY <1>1 DEF AttemptCap, Keys

LEMMA RestingTyped == Resting \in WorkerType
BY Bounds DEF Resting, WorkerType, Outcomes

LEMMA InitInv == Init => IInv
<1>1. ASSUME Init PROVE Typed
  <2>1. WorkersTyped BY <1>1, RestingTyped DEF Init, WorkersTyped
  <2>2. RowsTyped BY <1>1, Bounds DEF Init, RowsTyped, RowType
  <2>3. StagesTyped BY <1>1, Bounds DEF Init, StagesTyped, StageType
  <2>4. TasksTyped BY <1>1 DEF Init, TasksTyped
  <2>5. FillTyped BY <1>1 DEF Init, FillTyped
  <2>6. RestTyped BY <1>1, Bounds DEF Init, RestTyped
  <2>. QED BY <2>1, <2>2, <2>3, <2>4, <2>5, <2>6 DEF Typed
<1>2. ASSUME Init PROVE RowHeld /\ StageHeld /\ ReadyMatchesInput
  BY <1>2 DEF Init, RowHeld, StageHeld, ReadyMatchesInput
<1>3. ASSUME Init PROVE IdleInv /\ SlotInv
  BY <1>3 DEF Init, IdleInv, SlotInv, Idle, Resting, HasNode, Phases
<1>. QED BY <1>1, <1>2, <1>3 DEF IInv

-----------------------------------------------------------------------------
(* What steps do to rows and stages                                        *)

\* Only a worker that reports (or nobody) ends the processing of a row; rows
\* become ready with the key of their input.
RowKept(a) ==
    /\ row'[a].status = "processing" => row[a].status = "processing" /\ row'[a].key = row[a].key
    /\ row'[a].status = "ready" =>
         \/ basis'[a] = row'[a].key
         \/ row[a].status = "ready" /\ row'[a].key = row[a].key /\ basis'[a] = basis[a]
RowsKept == RowsTyped' /\ \A a \in Assets : RowKept(a)

\* No stage begins to be processed.
StageKept(a) == stage'[a].key # 0 /\ stage'[a].state = "processing" =>
    stage[a].state = "processing" /\ stage'[a].key = stage[a].key
StagesKept == StagesTyped' /\ \A a \in Assets : StageKept(a)

LEMMA RowsSame == ASSUME RowsTyped, UNCHANGED <<row, basis>> PROVE RowsKept
BY DEF RowsTyped, RowsKept, RowKept

LEMMA OneRow ==
    ASSUME RowsTyped, NEW a, NEW r \in RowType, row' = [row EXCEPT ![a] = r], UNCHANGED basis,
           r.status = "processing" => row[a].status = "processing" /\ r.key = row[a].key,
           r.status = "ready" => row[a].status = "ready" /\ r.key = row[a].key
    PROVE  RowsKept
<1>1. RowsTyped' BY DEF RowsTyped
<1>2. ASSUME NEW b \in Assets PROVE RowKept(b)
  <2>1. CASE b = a BY <2>1 DEF RowsTyped, RowKept
  <2>2. CASE b # a
    <3>1. row'[b] = row[b] BY <2>2 DEF RowsTyped
    <3>. QED BY <3>1 DEF RowKept
  <2>. QED BY <2>1, <2>2
<1>. QED BY <1>1, <1>2 DEF RowsKept

LEMMA StagesSame == ASSUME StagesTyped, UNCHANGED stage PROVE StagesKept
BY DEF StagesTyped, StagesKept, StageKept

LEMMA OneStage ==
    ASSUME StagesTyped, NEW a, NEW s \in StageType, stage' = [stage EXCEPT ![a] = s],
           s.key # 0 => s.state = "ready"
    PROVE  StagesKept
<1>1. StagesTyped' BY DEF StagesTyped
<1>2. ASSUME NEW b \in Assets PROVE StageKept(b)
  <2>1. CASE b = a BY <2>1 DEF StagesTyped, StageKept
  <2>2. CASE b # a BY <2>2 DEF StagesTyped, StageKept
  <2>. QED BY <2>1, <2>2
<1>. QED BY <1>1, <1>2 DEF StagesKept

LEMMA NoStageKept == ASSUME StagesTyped, NEW a, stage' = NoStage(a) PROVE StagesKept
<1> DEFINE s == [key |-> 0, state |-> "ready"]
<1>1. s \in StageType /\ s.key = 0 BY Bounds DEF StageType
<1>2. stage' = [stage EXCEPT ![a] = s] BY DEF NoStage
<1>. HIDE DEF s
<1>. QED BY <1>1, <1>2, OneStage

LEMMA NoStageIfKept ==
    ASSUME StagesTyped, NEW a, NEW P \in BOOLEAN, stage' = IF P THEN NoStage(a) ELSE stage
    PROVE  StagesKept
<1>1. CASE P BY <1>1, NoStageKept
<1>2. CASE ~P BY <1>2, StagesSame
<1>. QED BY <1>1, <1>2

LEMMA BeginExtractKept ==
    ASSUME StagesTyped, NEW a, NEW k, BeginExtract(a, k) PROVE StagesKept
<1>1. (Staged(a, k) /\ stage[a].state = "ready") \in BOOLEAN BY DEF Staged
<1>. QED BY <1>1, NoStageIfKept DEF BeginExtract

LEMMA EndExtractKept ==
    ASSUME StagesTyped, NEW a, NEW k \in Keys, EndExtract(a, k) PROVE StagesKept
<1> DEFINE s == [key |-> k, state |-> "ready"]
<1>1. s \in StageType /\ s.state = "ready" BY Bounds DEF StageType
<1>2. stage' = [stage EXCEPT ![a] = s] BY DEF EndExtract
<1>. HIDE DEF s
<1>. QED BY <1>1, <1>2, OneStage

-----------------------------------------------------------------------------
(* Result rows                                                             *)

LEMMA PendingTyped ==
    ASSUME NEW k \in Keys
    PROVE  Pending(k) \in RowType /\ Pending(k).key = k /\ Pending(k).status = "pending"
BY DEF Pending, RowType

LEMMA EnsureQueuedRow ==
    ASSUME NEW r \in RowType, NEW k \in Keys
    PROVE  LET e == EnsureQueued(r, k) IN
           /\ e \in RowType /\ e.key = k
           /\ e = r \/ e.status = "pending"
<1>1. r.key \in Keys BY DEF RowType
<1>2. CASE r.status = "none" \/ r.key # k BY <1>2, PendingTyped DEF EnsureQueued
<1>3. CASE ~(r.status = "none" \/ r.key # k) BY <1>3 DEF EnsureQueued
<1>. QED BY <1>2, <1>3

LEMMA ProcessedRow ==
    ASSUME NEW r \in RowType
    PROVE  /\ Processed(r) \in RowType /\ Processed(r).key = r.key
           /\ Processed(r).status = "processing"
<1> DEFINE n == IF r.attempts = AttemptCap THEN r.attempts ELSE r.attempts + 1
<1>1. n \in Nat BY DEF RowType
<1>2. Processed(r) = [r EXCEPT !.status = "processing", !.attempts = n] BY DEF Processed, RowType
<1>. HIDE DEF n
<1>. QED BY <1>1, <1>2 DEF RowType

LEMMA EnsureKept ==
    ASSUME RowsTyped, NEW a \in Assets, NEW k \in Keys, UNCHANGED basis,
           row' = [row EXCEPT ![a] = EnsureQueued(@, k)]
    PROVE  RowsKept
<1> DEFINE e == EnsureQueued(row[a], k)
<1>1. row[a] \in RowType BY DEF RowsTyped
<1>2. e \in RowType /\ (e = row[a] \/ e.status = "pending") BY <1>1, EnsureQueuedRow
<1>3. row' = [row EXCEPT ![a] = e] BY DEF RowsTyped
<1>. HIDE DEF e
<1>. QED BY <1>2, <1>3, OneRow

\* Every row stays or is pending.
LEMMA AllRows ==
    ASSUME RowsTyped, UNCHANGED basis, row' = [a \in Assets |-> row'[a]],
           \A a \in Assets : row'[a] = row[a] \/ (row'[a] \in RowType /\ row'[a].status = "pending")
    PROVE  RowsKept
<1>1. \A a \in Assets : row'[a] \in RowType BY DEF RowsTyped
<1>2. RowsTyped' BY <1>1 DEF RowsTyped
<1>3. ASSUME NEW a \in Assets PROVE RowKept(a) BY DEF RowKept
<1>. QED BY <1>2, <1>3 DEF RowsKept
-----------------------------------------------------------------------------
(* What steps do to the workers                                            *)

OthersSame(x) == WorkersTyped' /\ \A y \in Workers \ {x} : w'[y] = w[y]

\* Handle goes on with its task, version and stage.
SameTask(x) == /\ w'[x].task = w[x].task /\ w'[x].key = w[x].key
               /\ w[x].staged => w'[x].staged
SameNode(x) == w'[x].node = w[x].node

LEMMA GoDoes ==
    ASSUME WorkersTyped, NEW x \in Workers, NEW at \in Phases, Go(x, at)
    PROVE  OthersSame(x) /\ SameTask(x) /\ SameNode(x) /\ w'[x].at = at
<1> DEFINE e == [w[x] EXCEPT !.at = at]
<1>1. w[x] \in WorkerType BY DEF WorkersTyped
<1>2. /\ e \in WorkerType /\ e.at = at /\ e.task = w[x].task /\ e.key = w[x].key
      /\ e.node = w[x].node /\ e.staged = w[x].staged
  BY <1>1 DEF WorkerType
<1>3. w' = [w EXCEPT ![x] = e] BY DEF Go
<1>. HIDE DEF e
<1>. QED BY <1>2, <1>3 DEF WorkersTyped, OthersSame, SameTask, SameNode

LEMMA LeaveDoes ==
    ASSUME WorkersTyped, NEW x \in Workers, NEW out \in Outcomes, Leave(x, out)
    PROVE  OthersSame(x) /\ SameTask(x) /\ SameNode(x) /\ w'[x].at = "return"
<1> DEFINE e == [w[x] EXCEPT !.at = "return", !.out = out]
<1>1. w[x] \in WorkerType BY DEF WorkersTyped
<1>2. /\ e \in WorkerType /\ e.at = "return" /\ e.task = w[x].task /\ e.key = w[x].key
      /\ e.node = w[x].node /\ e.staged = w[x].staged
  BY <1>1 DEF WorkerType, Phases
<1>3. w' = [w EXCEPT ![x] = e] BY DEF Leave
<1>. HIDE DEF e
<1>. QED BY <1>2, <1>3 DEF WorkersTyped, OthersSame, SameTask, SameNode

\* A handler that works on a row moves on with it, or leaves without it.
Handled(x) ==
    /\ OthersSame(x) /\ SameTask(x) /\ SameNode(x)
    /\ w[x].at \in Reporting /\ w'[x].at \in Reporting \cup {"return"}
    /\ lost \subseteq lost' /\ RowsKept
    /\ w'[x].at = "return" => \A a \in Assets :
         row'[a].status = "processing" => a \in lost' \/ ~(Asset(x) = a /\ w[x].key = row[a].key)
    /\ UNCHANGED <<slot, queue, delayed, fill, key>>

\* Handlers keep what they work on; some may have been told to stop.
WorkKept ==
    /\ WorkersTyped' /\ \A x \in Workers :
         SameTask(x) /\ SameNode(x) /\ w'[x].at = w[x].at /\ w'[x].staged = w[x].staged
    /\ lost \subseteq lost' /\ RowsKept /\ UNCHANGED slot

LEMMA RowHeldBy ==
    ASSUME RowHeld, RowsKept, lost \subseteq lost',
           \A x \in Workers, a \in Assets :
              Reports(x, a, row[a].key) /\ row'[a].status = "processing" =>
                 a \in lost' \/ (w'[x].at \in Reporting /\ SameTask(x))
    PROVE  RowHeld'
<1>1. SUFFICES ASSUME NEW a \in Assets, row'[a].status = "processing", a \notin lost'
               PROVE  \E x \in Workers : Reports(x, a, row[a].key)'
  BY DEF RowHeld
<1>2. row[a].status = "processing" /\ row'[a].key = row[a].key BY <1>1 DEF RowsKept, RowKept
<1>3. PICK x \in Workers : Reports(x, a, row[a].key) BY <1>1, <1>2 DEF RowHeld
<1>4. w'[x].at \in Reporting /\ SameTask(x) BY <1>1, <1>3
<1>. QED BY <1>2, <1>3, <1>4 DEF Reports, SameTask

LEMMA StageHeldBy ==
    ASSUME StageHeld, StagesKept,
           \A x \in Workers, a \in Assets : Holds(x, a, stage[a].key) =>
              SameTask(x) \/ stage'[a].key # stage[a].key \/ stage'[a].state # "processing"
    PROVE  StageHeld'
<1>1. SUFFICES ASSUME NEW a \in Assets, stage'[a].key # 0, stage'[a].state = "processing"
               PROVE  \E x \in Workers : Holds(x, a, stage[a].key)'
  BY DEF StageHeld
<1>2. stage[a].state = "processing" /\ stage'[a].key = stage[a].key BY <1>1 DEF StagesKept, StageKept
<1>3. PICK x \in Workers : Holds(x, a, stage[a].key) BY <1>1, <1>2 DEF StageHeld
<1>4. SameTask(x) BY <1>1, <1>2, <1>3
<1>. QED BY <1>2, <1>3, <1>4 DEF Holds, SameTask

LEMMA ReadyKept == ASSUME ReadyMatchesInput, RowsKept PROVE ReadyMatchesInput'
BY DEF ReadyMatchesInput, RowsKept, RowKept

LEMMA HandledKeeps ==
    ASSUME IInv, NEW x \in Workers, Handled(x)
    PROVE  /\ WorkersTyped' /\ RowsTyped' /\ TasksTyped' /\ FillTyped' /\ RestTyped'
           /\ IdleInv' /\ RowHeld' /\ ReadyMatchesInput' /\ SlotInv'
           /\ \A y \in Workers : SameTask(y)
<1>1. /\ WorkersTyped' /\ RowsTyped' /\ TasksTyped' /\ FillTyped' /\ RestTyped'
      /\ ReadyMatchesInput'
  BY ReadyKept DEF IInv, Typed, Handled, OthersSame, RowsKept, TasksTyped, FillTyped, RestTyped
<1>2. \A y \in Workers : y # x => w'[y] = w[y] BY DEF Handled, OthersSame
<1>3. \A y \in Workers : SameTask(y) BY <1>2 DEF Handled, SameTask
<1>4. w[x].at \notin {"idle", "node", "return"} /\ w'[x].at # "idle"
  BY DEF Handled, Reporting
<1>5. IdleInv' BY <1>2, <1>3, <1>4 DEF IInv, IdleInv, Idle, SameTask
<1>6. RowHeld'
  <2>1. ASSUME NEW y \in Workers, NEW a \in Assets, Reports(y, a, row[a].key), row'[a].status = "processing"
        PROVE  a \in lost' \/ (w'[y].at \in Reporting /\ SameTask(y))
    <3>1. CASE y # x BY <1>2, <1>3, <2>1, <3>1 DEF Reports
    <3>2. CASE y = x BY <1>3, <2>1, <3>2 DEF Reports, Handled, Asset
    <3>. QED BY <3>1, <3>2
  <2>. QED BY <2>1, RowHeldBy DEF IInv, Handled
<1>7. SlotInv'
  <2>1. SUFFICES ASSUME NEW y \in Workers, w'[y].at \in HasNode
                 PROVE  w'[y].node \in Nodes /\ slot[w'[y].node] = y
    BY DEF SlotInv, Handled
  <2>2. w[y].at \in HasNode
    <3>1. w[x].at \in HasNode BY DEF Handled, HasNode, Reporting, Phases
    <3>. QED BY <1>2, <2>1, <3>1
  <2>3. w'[y].node = w[y].node BY <1>2 DEF Handled, SameNode
  <2>. QED BY <2>2, <2>3 DEF IInv, SlotInv
<1>. QED BY <1>1, <1>3, <1>5, <1>6, <1>7

LEMMA HandledInv ==
    ASSUME IInv, NEW x \in Workers, Handled(x), StagesKept PROVE IInv'
<1>1. \A y \in Workers : SameTask(y) BY HandledKeeps
<1>2. StageHeld' BY <1>1, StageHeldBy DEF IInv
<1>. QED BY <1>2, HandledKeeps DEF IInv, Typed, StagesKept

LEMMA WorkKeptInv ==
    ASSUME IInv, WorkKept, StagesKept, TasksTyped', FillTyped', RestTyped' PROVE IInv'
<1>1. Typed' BY DEF WorkKept, StagesKept, RowsKept, Typed
<1>2. IdleInv' /\ SlotInv' BY DEF IInv, WorkKept, IdleInv, SlotInv, Idle, SameTask, SameNode
<1>3. RowHeld' BY RowHeldBy DEF IInv, WorkKept, Reports
<1>4. StageHeld' BY StageHeldBy DEF IInv, WorkKept
<1>5. ReadyMatchesInput' BY ReadyKept DEF IInv, WorkKept
<1>. QED BY <1>1, <1>2, <1>3, <1>4, <1>5 DEF IInv

LEMMA WorkSame ==
    ASSUME IInv, UNCHANGED <<w, slot>>, lost \subseteq lost', RowsKept, StagesKept,
           TasksTyped', FillTyped', key' \in [Assets -> Keys]
    PROVE  IInv'
<1>1. WorkKept BY DEF WorkKept, IInv, Typed, WorkersTyped, SameTask, SameNode
<1>2. RestTyped' BY DEF IInv, Typed, RestTyped
<1>. QED BY <1>1, <1>2, WorkKeptInv
-----------------------------------------------------------------------------
(* Handlers that leave                                                     *)

\* The row is given up by a handler of asset a and version k.
RowGivenUp(a, k) == /\ lost \subseteq lost' /\ RowsKept
                    /\ \A b \in Assets : row'[b].status = "processing" =>
                         b \in lost' \/ ~(a = b /\ k = row[b].key)

LEMMA RowReplaced ==
    ASSUME RowsTyped, NEW a \in Assets, NEW k, NEW r \in RowType, row' = [row EXCEPT ![a] = r],
           UNCHANGED <<basis, lost>>, r.status \in {"pending", "failed"}
    PROVE  RowGivenUp(a, k)
<1>1. RowsKept BY OneRow
<1>2. row'[a] = r BY DEF RowsTyped
<1>. QED BY <1>1, <1>2 DEF RowGivenUp

LEMMA RowNotProcessing ==
    ASSUME RowsTyped, NEW a, NEW k, ~Processing(a, k), UNCHANGED <<row, basis, lost>>
    PROVE  RowGivenUp(a, k)
BY RowsSame DEF Processing, RowGivenUp

LEMMA RequeueDoes ==
    ASSUME RowsTyped, NEW a \in Assets, NEW k, RequeueInterrupted(a, k), UNCHANGED <<basis, lost>>
    PROVE  RowGivenUp(a, k)
<1>1. CASE ~Processing(a, k) BY <1>1, RowNotProcessing DEF RequeueInterrupted
<1>2. CASE Processing(a, k)
  <2>. DEFINE n == IF row[a].attempts = 0 THEN 0 ELSE row[a].attempts - 1
              r == [key |-> row[a].key, attempts |-> n, status |-> "pending"]
  <2>1. row[a] \in RowType BY DEF RowsTyped
  <2>2. n \in Nat BY <2>1 DEF RowType
  <2>3. row' = [row EXCEPT ![a] = r]
    <3>. DEFINE m == [row EXCEPT ![a].status = "pending"]
    <3>1. row' = [m EXCEPT ![a].attempts = IF @ = 0 THEN 0 ELSE @ - 1]
      BY <1>2 DEF RequeueInterrupted
    <3>2. m[a] = [key |-> row[a].key, attempts |-> row[a].attempts, status |-> "pending"]
      BY <2>1 DEF RowsTyped, RowType
    <3>3. row' = [m EXCEPT ![a] = [m[a] EXCEPT !.attempts = n]]
      BY <3>1, <3>2
    <3>4. [m[a] EXCEPT !.attempts = n] = r BY <3>2
    <3>. HIDE DEF r, n
    <3>. QED BY <3>3, <3>4 DEF RowsTyped
  <2>. HIDE DEF n
  <2>4. r \in RowType /\ r.status = "pending" BY <2>1, <2>2 DEF RowType
  <2>. HIDE DEF r
  <2>. QED BY <2>3, <2>4, RowReplaced
<1>. QED BY <1>1, <1>2

LEMMA RowFails ==
    ASSUME RowsTyped, NEW a \in Assets, NEW k, UNCHANGED <<basis, lost>>,
           row' = IF Processing(a, k) THEN [row EXCEPT ![a].status = "failed"] ELSE row
    PROVE  RowGivenUp(a, k)
<1>1. CASE ~Processing(a, k) BY <1>1, RowNotProcessing
<1>2. CASE Processing(a, k)
  <2>. DEFINE r == [row[a] EXCEPT !.status = "failed"]
  <2>1. r \in RowType /\ r.status = "failed" BY DEF RowsTyped, RowType
  <2>2. row' = [row EXCEPT ![a] = r] BY <1>2
  <2>. HIDE DEF r
  <2>. QED BY <2>1, <2>2, RowReplaced
<1>. QED BY <1>1, <1>2

LEMMA ReportLost ==
    ASSUME RowsTyped, NEW a \in Assets, NEW k, UNCHANGED <<row, basis>>,
           lost' = IF Processing(a, k) THEN lost \cup {a} ELSE lost
    PROVE  RowGivenUp(a, k)
<1>1. CASE ~Processing(a, k) BY <1>1, RowNotProcessing
<1>2. CASE Processing(a, k) BY <1>2, RowsSame DEF RowGivenUp
<1>. QED BY <1>1, <1>2

Fixed == UNCHANGED <<slot, queue, delayed, fill, key>>

LEMMA LeavesHandled ==
    ASSUME WorkersTyped, NEW x \in Workers, w[x].at \in Reporting, NEW out \in Outcomes,
           Leave(x, out), RowGivenUp(Asset(x), w[x].key), Fixed
    PROVE  Handled(x)
BY LeaveDoes DEF Handled, RowGivenUp, Fixed

LEMMA GoesHandled ==
    ASSUME WorkersTyped, RowsTyped, NEW x \in Workers, w[x].at \in Reporting, NEW at \in Reporting, Go(x, at),
           UNCHANGED <<row, basis, lost>>, Fixed
    PROVE  Handled(x)
<1>1. at \in Phases /\ at # "return" BY DEF Reporting, Phases
<1>. QED BY <1>1, GoDoes, RowsSame DEF Handled, Fixed

LEMMA AtWork ==
    ASSUME IInv, NEW x \in Workers, w[x].at # "idle"
    PROVE  /\ w[x] \in WorkerType /\ w[x].task \in Task
           /\ Asset(x) \in Assets /\ w[x].key \in Keys
BY DEF IInv, Typed, WorkersTyped, WorkerType, IdleInv, Idle, Task, Asset

LEMMA InterruptHandled ==
    ASSUME IInv, NEW x \in Workers, w[x].at \in Reporting, NEW out \in Outcomes, NEW pauses,
           Interrupt(x, out, pauses), UNCHANGED <<basis, lost>>, Fixed
    PROVE  Handled(x)
<1>1. Asset(x) \in Assets BY AtWork DEF Reporting
<1>2. RowGivenUp(Asset(x), w[x].key) BY <1>1, RequeueDoes DEF Interrupt, IInv, Typed
<1>. QED BY <1>2, LeavesHandled DEF Interrupt, IInv, Typed

LEMMA GiveWayHandled ==
    ASSUME IInv, NEW x \in Workers, w[x].at \in Reporting, GiveWay(x), UNCHANGED <<basis, lost>>, Fixed
    PROVE  Handled(x)
<1> DEFINE out == IF w[x].cause = "priority" THEN "preempted" ELSE "kept"
<1>1. out \in Outcomes BY DEF Outcomes
<1>2. Interrupt(x, out, TRUE) BY DEF GiveWay
<1>. HIDE DEF out
<1>. QED BY <1>1, <1>2, InterruptHandled

LEMMA FailHandled ==
    ASSUME IInv, NEW x \in Workers, w[x].at \in Reporting, NEW retryable \in BOOLEAN, Fail(x, retryable),
           UNCHANGED basis, Fixed
    PROVE  Handled(x)
<1>1. Asset(x) \in Assets BY AtWork DEF Reporting
<1>2. RowsTyped /\ WorkersTyped BY DEF IInv, Typed
<1>3. CASE Cancelled(x)
  <2>1. RowGivenUp(Asset(x), w[x].key) BY <1>1, <1>2, <1>3, ReportLost DEF Fail
  <2>. QED BY <1>2, <1>3, <2>1, LeavesHandled DEF Fail, Outcomes
<1>4. CASE ~Cancelled(x)
  <2>1. RowGivenUp(Asset(x), w[x].key) BY <1>1, <1>2, <1>4, RowFails DEF Fail
  <2>2. Leave(x, "retry") \/ Leave(x, "done") BY <1>4 DEF Fail
  <2>. QED BY <1>2, <2>1, <2>2, LeavesHandled DEF Outcomes
<1>. QED BY <1>3, <1>4

LEMMA RecheckHandled == ASSUME IInv, NEW x \in Workers, Recheck(x) PROVE Handled(x)
<1>1. w[x].at \in Reporting /\ Fixed BY DEF Recheck, Reporting, Fixed, KeepsJobs, jobs, loop
<1>2. CASE Interrupt(x, "kept", FALSE) /\ UNCHANGED lost
  BY <1>1, <1>2, InterruptHandled DEF Recheck, Outcomes
<1>3. CASE Fail(x, TRUE) BY <1>1, <1>3, FailHandled DEF Recheck
<1>4. CASE Go(x, "prepare") /\ UNCHANGED <<row, lost>>
  BY <1>1, <1>4, GoesHandled DEF Recheck, Reporting, IInv, Typed
<1>. QED BY <1>2, <1>3, <1>4 DEF Recheck

LEMMA ExtractFailsHandled == ASSUME IInv, NEW x \in Workers, ExtractFails(x) PROVE Handled(x)
<1>1. w[x].at \in Reporting /\ Fixed BY DEF ExtractFails, Reporting, Fixed, KeepsJobs, jobs, loop
<1>2. CASE GiveWay(x) /\ UNCHANGED lost BY <1>1, <1>2, GiveWayHandled DEF ExtractFails
<1>3. CASE Interrupt(x, "kept", FALSE) /\ UNCHANGED lost
  BY <1>1, <1>3, InterruptHandled DEF ExtractFails, Outcomes
<1>4. CASE Fail(x, TRUE) BY <1>1, <1>4, FailHandled DEF ExtractFails
<1>. QED BY <1>2, <1>3, <1>4 DEF ExtractFails

LEMMA AnalysisFailsHandled == ASSUME IInv, NEW x \in Workers, AnalysisFails(x) PROVE Handled(x)
<1>1. w[x].at \in Reporting /\ Fixed BY DEF AnalysisFails, Reporting, Fixed, KeepsJobs, jobs, loop
<1>2. UNCHANGED basis BY DEF AnalysisFails
<1>3. CASE GiveWay(x) /\ UNCHANGED lost BY <1>1, <1>2, <1>3, GiveWayHandled
<1>4. CASE UNCHANGED lost /\ (Interrupt(x, "preempted", TRUE) \/ Interrupt(x, "retry", FALSE))
  BY <1>1, <1>2, <1>4, InterruptHandled DEF Outcomes
<1>5. CASE \E retryable \in BOOLEAN : Fail(x, retryable) BY <1>1, <1>2, <1>5, FailHandled
<1>. QED BY <1>3, <1>4, <1>5 DEF AnalysisFails

LEMMA SaveResultHandled == ASSUME IInv, NEW x \in Workers, SaveResult(x) PROVE Handled(x)
<1> DEFINE a == Asset(x)  k == w[x].key
<1>1. w[x].at \in Reporting /\ Fixed BY DEF SaveResult, Reporting, Fixed, KeepsJobs, jobs, loop
<1>2. a \in Assets /\ k \in Keys BY <1>1, AtWork DEF Reporting
<1>3. RowsTyped /\ WorkersTyped BY DEF IInv, Typed
<1>4. CASE Cancelled(x) BY <1>1, <1>4, GiveWayHandled DEF SaveResult
<1>5. CASE ~Cancelled(x)
  <2>1. CASE ~Processing(a, k)
    <3>1. RowGivenUp(a, k) BY <1>3, <1>5, <2>1, RowNotProcessing DEF SaveResult
    <3>. QED BY <1>1, <1>3, <1>5, <3>1, LeavesHandled DEF SaveResult, Outcomes
  <2>2. CASE Processing(a, k)
    <3>. DEFINE r == [row[a] EXCEPT !.status = "ready"]
    <3>1. r \in RowType /\ r.status = "ready" /\ r.key = row[a].key
      BY <1>2, <1>3 DEF RowsTyped, RowType
    <3>2. row' = [row EXCEPT ![a] = r] /\ basis' = [basis EXCEPT ![a] = k] /\ r.key = k /\ lost' = lost
      BY <1>5, <2>2, <3>1 DEF SaveResult, Processing
    <3>. HIDE DEF r, a, k
    <3>3. RowsTyped' BY <1>2, <1>3, <3>1, <3>2, Bounds DEF RowsTyped
    <3>4. ASSUME NEW b \in Assets PROVE RowKept(b) /\ (b = a => row'[b].status = "ready")
      <4>1. CASE b = a BY <1>2, <1>3, <3>1, <3>2, <4>1 DEF RowsTyped, RowKept
      <4>2. CASE b # a
        <5>1. row'[b] = row[b] /\ basis'[b] = basis[b] BY <1>3, <3>2, <4>2 DEF RowsTyped
        <5>. QED BY <4>2, <5>1 DEF RowKept
      <4>. QED BY <4>1, <4>2
    <3>5. RowGivenUp(a, k) BY <3>2, <3>3, <3>4 DEF RowGivenUp, RowsKept
    <3>6. Leave(x, "done") BY <1>5 DEF SaveResult
    <3>. QED BY <1>1, <1>3, <3>5, <3>6, LeavesHandled DEF a, k, Outcomes
  <2>. QED BY <2>1, <2>2
<1>. QED BY <1>4, <1>5
-----------------------------------------------------------------------------
(* Handlers that go on                                                     *)

LEMMA LeavingInv ==
    ASSUME IInv, NEW x \in Workers,
           Recheck(x) \/ ExtractFails(x) \/ AnalysisFails(x) \/ SaveResult(x)
    PROVE  IInv'
<1>1. Handled(x) BY RecheckHandled, ExtractFailsHandled, AnalysisFailsHandled, SaveResultHandled
<1>2. UNCHANGED stage BY DEF Recheck, ExtractFails, FailExtract, AnalysisFails, SaveResult
<1>3. StagesKept BY <1>2, StagesSame DEF IInv, Typed
<1>. QED BY <1>1, <1>3, HandledInv

LEMMA PrepareInv == ASSUME IInv, NEW x \in Workers, Prepare(x) PROVE IInv'
<1>1. UNCHANGED <<row, basis, lost>> /\ Fixed /\ w[x].at \in Reporting
  BY DEF Prepare, Fixed, KeepsJobs, jobs, loop, Reporting
<1>2. Handled(x)
  <2>1. PICK at \in Reporting : Go(x, at) BY DEF Prepare, Reporting
  <2>. QED BY <1>1, <2>1, GoesHandled DEF IInv, Typed
<1>3. StagesKept BY StagesSame, BeginExtractKept DEF Prepare, IInv, Typed
<1>. QED BY <1>2, <1>3, HandledInv

LEMMA ExtractedInv == ASSUME IInv, NEW x \in Workers, Extracted(x) PROVE IInv'
<1>1. UNCHANGED <<row, basis, lost>> /\ Fixed /\ w[x].at \in Reporting
  BY DEF Extracted, Fixed, KeepsJobs, jobs, loop, Reporting
<1>2. Handled(x) BY <1>1, GoesHandled DEF Extracted, Reporting, IInv, Typed
<1>3. w[x].key \in Keys BY <1>1, AtWork DEF Reporting
<1>4. StagesKept BY <1>3, EndExtractKept DEF Extracted, IInv, Typed
<1>. QED BY <1>2, <1>4, HandledInv

LEMMA AnalysedInv == ASSUME IInv, NEW x \in Workers, Analysed(x) PROVE IInv'
<1>1. UNCHANGED <<row, basis, lost, stage>> /\ Fixed /\ w[x].at \in Reporting
  BY DEF Analysed, Fixed, KeepsJobs, jobs, loop, data, Reporting
<1>2. Handled(x) BY <1>1, GoesHandled DEF Analysed, Reporting, IInv, Typed
<1>3. StagesKept BY <1>1, StagesSame DEF IInv, Typed
<1>. QED BY <1>2, <1>3, HandledInv

\* The one step that takes a stage into processing, for its own handler.
LEMMA AdoptInv == ASSUME IInv, NEW x \in Workers, Adopt(x) PROVE IInv'
<1> DEFINE a == Asset(x)  k == w[x].key  e == [w[x] EXCEPT !.at = "analyse", !.staged = TRUE]
<1>1. WorkersTyped /\ RowsTyped /\ StagesTyped BY DEF IInv, Typed
<1>2. /\ w[x].at \in Reporting /\ a \in Assets /\ k \in Keys /\ w[x] \in WorkerType
  BY AtWork DEF Adopt, Reporting
<1>3. /\ e \in WorkerType /\ e.at = "analyse" /\ e.staged /\ e.task = w[x].task /\ e.key = w[x].key
      /\ e.node = w[x].node
  BY <1>2 DEF WorkerType, Phases
<1>4. w' = [w EXCEPT ![x] = e] BY DEF Adopt
<1>. HIDE DEF e
<1>5. OthersSame(x) /\ SameTask(x) /\ SameNode(x) /\ w'[x] = e
  BY <1>1, <1>3, <1>4 DEF WorkersTyped, OthersSame, SameTask, SameNode
<1>6. Handled(x)
  BY <1>1, <1>2, <1>3, <1>5, RowsSame DEF Adopt, Handled, Reporting, KeepsJobs, jobs, loop
<1>7. \A y \in Workers : SameTask(y) BY <1>6, HandledKeeps
<1>8. CASE ~Staged(a, k)
  <2>1. StagesKept BY <1>1, <1>8, StagesSame DEF Adopt
  <2>. QED BY <1>6, <2>1, HandledInv
<1>9. CASE Staged(a, k)
  <2>. DEFINE s == [stage[a] EXCEPT !.state = "processing"]
  <2>1. s \in StageType /\ s.key = k BY <1>1, <1>2, <1>9 DEF StagesTyped, StageType, Staged
  <2>2. stage' = [stage EXCEPT ![a] = s] BY <1>9 DEF Adopt
  <2>. HIDE DEF s
  <2>3. StagesTyped' BY <1>1, <2>1, <2>2 DEF StagesTyped
  <2>4. Holds(x, a, k)' BY <1>3, <1>5 DEF Holds, Asset
  <2>5. StageHeld'
    <3>1. SUFFICES ASSUME NEW b \in Assets, stage'[b].key # 0, stage'[b].state = "processing"
                   PROVE  \E y \in Workers : Holds(y, b, stage[b].key)'
      BY DEF StageHeld
    <3>2. CASE b = a
      <4>1. stage'[b].key = k BY <1>1, <2>1, <2>2, <3>2 DEF StagesTyped
      <4>. QED BY <1>5, <1>3, <3>2, <4>1 DEF Holds, Asset
    <3>3. CASE b # a
      <4>1. stage'[b] = stage[b] BY <1>1, <2>2, <3>3 DEF StagesTyped
      <4>2. PICK y \in Workers : Holds(y, b, stage[b].key) BY <3>1, <4>1 DEF IInv, StageHeld
      <4>3. SameTask(y) BY <1>7
      <4>. QED BY <4>1, <4>2, <4>3 DEF Holds, SameTask
    <3>. QED BY <3>2, <3>3
  <2>. QED BY <1>6, <2>3, <2>5, HandledKeeps DEF IInv, Typed
<1>. QED BY <1>8, <1>9

-----------------------------------------------------------------------------
(* Handlers that wait, begin and end                                       *)

\* Nodes other handlers have stay theirs.
SlotsKept(x) == \A n \in Nodes : slot[n] \in Workers \ {x} => slot'[n] = slot[n]

\* Worker x is where no row is in its hands.
LEMMA WaitsInv ==
    ASSUME IInv, NEW x \in Workers, OthersSame(x), w[x].at \notin Reporting,
           UNCHANGED <<row, basis, lost>>, StagesKept, TasksTyped', FillTyped', RestTyped',
           \A a \in Assets : Holds(x, a, stage[a].key) =>
              SameTask(x) \/ stage'[a].key # stage[a].key \/ stage'[a].state # "processing",
           Idle(x)' => ~w'[x].staged,
           ~Idle(x)' => w'[x].task \in Task,
           w'[x].at \in HasNode => w'[x].node \in Nodes /\ slot'[w'[x].node] = x,
           SlotsKept(x)
    PROVE  IInv'
<1>1. \A y \in Workers : y # x => w'[y] = w[y] /\ SameTask(y) BY DEF OthersSame, SameTask
<1>2. RowsKept BY RowsSame DEF IInv, Typed
<1>3. Typed' BY <1>2 DEF OthersSame, RowsKept, StagesKept, Typed
<1>4. IdleInv' BY <1>1 DEF IInv, IdleInv, Idle
<1>5. RowHeld' BY <1>1, <1>2, RowHeldBy DEF IInv, Reports
<1>6. StageHeld' BY <1>1, StageHeldBy DEF IInv
<1>7. ReadyMatchesInput' BY <1>2, ReadyKept DEF IInv
<1>8. SlotInv'
  <2>1. SUFFICES ASSUME NEW y \in Workers, w'[y].at \in HasNode, y # x
                 PROVE  w'[y].node \in Nodes /\ slot'[w'[y].node] = y
    BY DEF SlotInv
  <2>2. w[y].node \in Nodes /\ slot[w[y].node] = y /\ w'[y] = w[y] BY <1>1, <2>1 DEF IInv, SlotInv
  <2>. QED BY <2>1, <2>2 DEF SlotsKept
<1>. QED BY <1>3, <1>4, <1>5, <1>6, <1>7, <1>8 DEF IInv

LEMMA BeginInv == ASSUME IInv, NEW x \in Workers, Begin(x) PROVE IInv'
<1>1. UNCHANGED <<row, basis, lost, stage, key, slot, delayed, fill>>
  BY DEF Begin, data, loop
<1>2. WorkersTyped /\ RowsTyped /\ StagesTyped /\ TasksTyped /\ FillTyped /\ RestTyped BY DEF IInv, Typed
<1>3. RowsKept /\ StagesKept BY <1>1, <1>2, RowsSame, StagesSame
<1>4. PICK t \in queue :
        /\ queue' = queue \ {t}
        /\ \/ UNCHANGED w
           \/ w' = [w EXCEPT ![x] = [Resting EXCEPT !.at = "node", !.task = t, !.key = key[t.asset]]]
  BY DEF Begin
<1>5. t \in Task /\ t.asset \in Assets BY <1>2 DEF TasksTyped, Task
<1>6. TasksTyped' /\ FillTyped' /\ RestTyped'
  BY <1>1, <1>2, <1>4 DEF TasksTyped, FillTyped, RestTyped
<1>7. CASE UNCHANGED w
  BY <1>1, <1>2, <1>3, <1>6, <1>7, WorkSame DEF RestTyped
<1>8. CASE ~UNCHANGED w
  <2>. DEFINE e == [Resting EXCEPT !.at = "node", !.task = t, !.key = key[t.asset]]
  <2>1. key[t.asset] \in Keys BY <1>2, <1>5 DEF RestTyped
  <2>2. e \in WorkerType /\ e.at = "node" /\ e.task = t
    BY <1>5, <2>1, RestingTyped DEF Resting, WorkerType, Phases
  <2>3. w' = [w EXCEPT ![x] = e] BY <1>4, <1>8
  <2>. HIDE DEF e
  <2>4. OthersSame(x) /\ w'[x] = e BY <1>2, <2>2, <2>3 DEF WorkersTyped, OthersSame
  <2>5. w[x].at \notin Reporting /\ ~w[x].staged BY DEF Begin, Idle, Reporting, IInv, IdleInv
  <2>. QED BY <1>1, <1>3, <1>5, <1>6, <2>2, <2>4, <2>5, WaitsInv DEF Idle, HasNode, Holds, SlotsKept
<1>. QED BY <1>7, <1>8

LEMMA TakeNodeInv == ASSUME IInv, NEW x \in Workers, NEW n \in Nodes, TakeNode(x, n) PROVE IInv'
<1> DEFINE e == [w[x] EXCEPT !.at = "health", !.node = n]
<1>1. UNCHANGED <<row, basis, lost, stage, key, queue, delayed, fill>>
  BY DEF TakeNode, data, KeepsJobs, jobs, loop
<1>2. WorkersTyped /\ StagesTyped /\ TasksTyped /\ FillTyped /\ RestTyped BY DEF IInv, Typed
<1>3. w[x] \in WorkerType /\ w[x].task \in Task /\ w[x].at = "node" BY AtWork DEF TakeNode
<1>4. /\ e \in WorkerType /\ e.at = "health" /\ e.node = n /\ e.task = w[x].task /\ e.key = w[x].key
      /\ e.staged = w[x].staged
  BY <1>3 DEF WorkerType, Phases
<1>5. w' = [w EXCEPT ![x] = e] BY DEF TakeNode
<1>. HIDE DEF e
<1>6. OthersSame(x) /\ w'[x] = e BY <1>2, <1>4, <1>5 DEF WorkersTyped, OthersSame
<1>7. slot' = [slot EXCEPT ![n] = x] /\ slot[n] = None BY DEF TakeNode, FreeNode
<1>8. SlotsKept(x) /\ slot'[n] = x BY <1>2, <1>7, Bounds DEF RestTyped, SlotsKept
<1>9. TasksTyped' /\ FillTyped' /\ RestTyped'
  BY <1>1, <1>2, <1>7 DEF TasksTyped, FillTyped, RestTyped
<1>10. StagesKept BY <1>1, <1>2, StagesSame
<1>11. SameTask(x) BY <1>4, <1>6 DEF SameTask
<1>12. w[x].at \notin Reporting /\ ~Idle(x)' /\ w'[x].task \in Task
  BY <1>3, <1>4, <1>6 DEF Reporting, Idle
<1>13. w'[x].node \in Nodes /\ slot'[w'[x].node] = x BY <1>4, <1>6, <1>8
<1>. QED BY <1>1, <1>6, <1>8, <1>9, <1>10, <1>11, <1>12, <1>13, WaitsInv

LEMMA NoNodeInv == ASSUME IInv, NEW x \in Workers, NoNode(x) PROVE IInv'
<1>1. UNCHANGED <<row, basis, lost, stage, key, slot, queue, delayed, fill>>
  BY DEF NoNode, data, KeepsJobs, jobs, loop
<1>2. WorkersTyped /\ StagesTyped /\ TasksTyped /\ FillTyped /\ RestTyped BY DEF IInv, Typed
<1>3. w[x].task \in Task /\ w[x].at = "node" BY AtWork DEF NoNode
<1>4. PICK out \in Outcomes : Leave(x, out) BY DEF NoNode, Outcomes
<1>5. OthersSame(x) /\ SameTask(x) /\ w'[x].at = "return" BY <1>2, <1>4, LeaveDoes
<1>6. TasksTyped' /\ FillTyped' /\ RestTyped' BY <1>1, <1>2 DEF TasksTyped, FillTyped, RestTyped
<1>7. StagesKept BY <1>1, <1>2, StagesSame
<1>8. w[x].at \notin Reporting /\ ~Idle(x)' /\ w'[x].at \notin HasNode /\ SlotsKept(x)
  BY <1>1, <1>3, <1>5 DEF Reporting, Idle, HasNode, SlotsKept
<1>9. w'[x].task \in Task BY <1>3, <1>5 DEF SameTask
<1>. QED BY <1>1, <1>5, <1>6, <1>7, <1>8, <1>9, WaitsInv

LEMMA UnhealthyInv == ASSUME IInv, NEW x \in Workers, Unhealthy(x) PROVE IInv'
<1> DEFINE n == w[x].node
           last == Nodes = w[x].tried \cup {n}
           at == IF last THEN "return" ELSE "node"
           out == IF Cancelled(x) THEN "done" ELSE "retry"
           e == [w[x] EXCEPT !.node = None, !.tried = w[x].tried \cup {n}, !.at = at, !.out = out]
<1>1. UNCHANGED <<row, basis, lost, stage, key, queue, delayed, fill>>
  BY DEF Unhealthy, data, KeepsJobs, jobs, loop
<1>2. WorkersTyped /\ StagesTyped /\ TasksTyped /\ FillTyped /\ RestTyped BY DEF IInv, Typed
<1>3. w[x] \in WorkerType /\ w[x].task \in Task /\ w[x].at = "health" BY AtWork DEF Unhealthy
<1>4. n \in Nodes /\ slot[n] = x BY <1>3 DEF IInv, SlotInv, HasNode, Phases
<1>5. at \in {"return", "node"} /\ out \in Outcomes BY DEF Outcomes
<1>6. w[x].tried \cup {n} \in SUBSET Nodes BY <1>3, <1>4 DEF WorkerType
<1>7. w' = [w EXCEPT ![x] = e] BY DEF Unhealthy
<1>8. slot' = [slot EXCEPT ![n] = None] BY DEF Unhealthy
<1>. HIDE DEF at, out, n
<1>9. e \in WorkerType /\ e.at = at /\ e.task = w[x].task /\ e.key = w[x].key /\ e.staged = w[x].staged
  BY <1>3, <1>5, <1>6 DEF WorkerType, Phases
<1>. HIDE DEF e
<1>10. OthersSame(x) /\ w'[x] = e BY <1>2, <1>9, <1>7 DEF WorkersTyped, OthersSame
<1>11. SlotsKept(x) BY <1>2, <1>4, <1>8 DEF RestTyped, SlotsKept
<1>12. TasksTyped' /\ FillTyped' /\ RestTyped'
  BY <1>1, <1>2, <1>8 DEF TasksTyped, FillTyped, RestTyped
<1>13. StagesKept BY <1>1, <1>2, StagesSame
<1>14. SameTask(x) BY <1>9, <1>10 DEF SameTask
<1>15. w[x].at \notin Reporting /\ ~Idle(x)' /\ w'[x].task \in Task /\ w'[x].at \notin HasNode
  BY <1>3, <1>5, <1>9, <1>10 DEF Reporting, Idle, HasNode
<1>. QED BY <1>1, <1>10, <1>11, <1>12, <1>13, <1>14, <1>15, WaitsInv

\* The one step that takes a row into processing, for its own handler.
LEMMA MarkProcessingInv == ASSUME IInv, NEW x \in Workers, MarkProcessing(x) PROVE IInv'
<1> DEFINE a == Asset(x)  k == w[x].key  r == EnsureQueued(row[a], k)
<1>1. UNCHANGED <<basis, lost, stage, key, slot, queue, delayed, fill>>
  BY DEF MarkProcessing, KeepsJobs, jobs, loop
<1>2. WorkersTyped /\ RowsTyped /\ StagesTyped /\ TasksTyped /\ FillTyped /\ RestTyped BY DEF IInv, Typed
<1>3. w[x].task \in Task /\ w[x].at = "health" /\ a \in Assets /\ k \in Keys BY AtWork DEF MarkProcessing
<1>4. TasksTyped' /\ FillTyped' /\ RestTyped' BY <1>1, <1>2 DEF TasksTyped, FillTyped, RestTyped
<1>5. StagesKept BY <1>1, <1>2, StagesSame
<1>6. w[x].at \notin Reporting /\ w[x].at \in HasNode BY <1>3 DEF Reporting, HasNode, Phases
<1>7. CASE UNCHANGED row /\ Leave(x, "done")
  <2>1. OthersSame(x) /\ SameTask(x) /\ w'[x].at = "return" BY <1>2, <1>7, LeaveDoes DEF Outcomes
  <2>2. ~Idle(x)' /\ w'[x].at \notin HasNode /\ SlotsKept(x)
    BY <1>1, <2>1 DEF Idle, HasNode, SlotsKept
  <2>3. w'[x].task \in Task BY <1>3, <2>1 DEF SameTask
  <2>. QED BY <1>1, <1>4, <1>5, <1>6, <1>7, <2>1, <2>2, <2>3, WaitsInv
<1>8. CASE row' = [row EXCEPT ![a] = Processed(r)] /\ Go(x, "recheck")
  <2>1. OthersSame(x) /\ SameTask(x) /\ SameNode(x) /\ w'[x].at = "recheck" BY <1>2, <1>8, GoDoes DEF Phases
  <2>2. row[a] \in RowType BY <1>2, <1>3 DEF RowsTyped
  <2>3. r \in RowType /\ r.key = k BY <1>3, <2>2, EnsureQueuedRow
  <2>. DEFINE p == Processed(r)
  <2>4. p \in RowType /\ p.key = k /\ p.status = "processing" BY <2>3, ProcessedRow
  <2>5. row' = [row EXCEPT ![a] = p] BY <1>8
  <2>. HIDE DEF p
  <2>6. \A y \in Workers : y # x => w'[y] = w[y] BY <2>1 DEF OthersSame
  <2>7. \A b \in Assets : b # a => row'[b] = row[b] BY <1>2, <2>5 DEF RowsTyped
  <2>8. row'[a] = p BY <1>2, <1>3, <2>5 DEF RowsTyped
  <2>9. Typed'
    <3>1. RowsTyped' BY <1>1, <1>2, <2>4, <2>5 DEF RowsTyped
    <3>. QED BY <1>4, <1>5, <2>1, <3>1 DEF Typed, OthersSame, StagesKept
  <2>10. IdleInv' BY <1>3, <2>1, <2>6 DEF IInv, IdleInv, Idle, SameTask
  <2>11. RowHeld'
    <3>1. SUFFICES ASSUME NEW b \in Assets, row'[b].status = "processing", b \notin lost'
                   PROVE  \E y \in Workers : Reports(y, b, row[b].key)'
      BY DEF RowHeld
    <3>2. CASE b = a BY <2>1, <2>4, <2>8, <3>2 DEF Reports, SameTask, Reporting, Asset
    <3>3. CASE b # a
      <4>1. row'[b] = row[b] BY <2>7, <3>3
      <4>2. PICK y \in Workers : Reports(y, b, row[b].key) BY <1>1, <3>1, <4>1 DEF IInv, RowHeld
      <4>3. y # x BY <1>6, <4>2 DEF Reports
      <4>. QED BY <2>6, <4>1, <4>2, <4>3 DEF Reports
    <3>. QED BY <3>2, <3>3
  <2>12. StageHeld'
    <3>1. \A y \in Workers : SameTask(y) BY <2>1, <2>6 DEF SameTask
    <3>. QED BY <1>5, <3>1, StageHeldBy DEF IInv
  <2>13. ReadyMatchesInput'
    <3>1. SUFFICES ASSUME NEW b \in Assets, row'[b].status = "ready" PROVE basis'[b] = row'[b].key
      BY DEF ReadyMatchesInput
    <3>2. b # a BY <2>4, <2>8, <3>1
    <3>. QED BY <1>1, <2>7, <3>1, <3>2 DEF IInv, ReadyMatchesInput
  <2>14. SlotInv' BY <1>1, <1>6, <2>1, <2>6 DEF IInv, SlotInv, SameNode
  <2>. QED BY <2>9, <2>10, <2>11, <2>12, <2>13, <2>14 DEF IInv
<1>. QED BY <1>7, <1>8 DEF MarkProcessing
LEMMA EnqueueTyped ==
    ASSUME TasksTyped, NEW t \in Task, Enqueue(t), delayed' \subseteq delayed
    PROVE  TasksTyped'
BY DEF TasksTyped, Enqueue

\* A handler that ends gives its stage back first.
LEMMA ReturnInv == ASSUME IInv, NEW x \in Workers, Return(x) PROVE IInv'
<1> DEFINE a == Asset(x)  k == w[x].key  t == w[x].task
<1>1. UNCHANGED <<row, basis, lost, key, fill>> BY DEF Return, loop
<1>2. WorkersTyped /\ StagesTyped /\ TasksTyped /\ FillTyped /\ RestTyped BY DEF IInv, Typed
<1>3. w[x].at = "return" /\ t \in Task /\ a \in Assets /\ k \in Keys BY AtWork DEF Return
<1>4. w' = [w EXCEPT ![x] = Resting] BY DEF Return
<1>5. OthersSame(x) /\ w'[x] = Resting BY <1>2, <1>4, RestingTyped DEF WorkersTyped, OthersSame
<1>6. slot' = [n \in Nodes |-> IF slot[n] = x THEN None ELSE slot[n]] BY DEF Return
<1>7. SlotsKept(x) BY <1>6 DEF SlotsKept
<1>8. TasksTyped'
  <2>1. queue' \subseteq Task BY <1>2, <1>3 DEF Return, TasksTyped
  <2>2. CASE ~MayRetry(x) BY <1>2, <2>1, <2>2 DEF Return, TasksTyped
  <2>3. CASE MayRetry(x)
    <3>1. t.attempt \in 0 .. MaxRetries /\ t.attempt < MaxRetries BY <1>3, <2>3 DEF Task, MayRetry
    <3>2. t.attempt + 1 \in 0 .. MaxRetries BY <3>1, ConstantsAssumption DEF ConstantsAssumption
    <3>3. [t EXCEPT !.attempt = @ + 1] \in Task BY <1>3, <3>2 DEF Task
    <3>4. delayed' = delayed \cup {[t EXCEPT !.attempt = @ + 1]} BY <2>3 DEF Return
    <3>. QED BY <1>2, <2>1, <3>3, <3>4 DEF TasksTyped
  <2>. QED BY <2>2, <2>3
<1>9. FillTyped' /\ RestTyped' BY <1>1, <1>2, <1>6 DEF FillTyped, RestTyped
<1>10. w[x].at \notin Reporting /\ Idle(x)' /\ ~w'[x].staged /\ w'[x].at \notin HasNode
  <2>1. Resting.at = "idle" /\ ~Resting.staged BY DEF Resting
  <2>2. w[x].at \notin Reporting BY <1>3 DEF Reporting
  <2>3. Idle(x)' /\ ~w'[x].staged BY <1>5, <2>1 DEF Idle
  <2>4. "idle" \notin HasNode BY DEF HasNode, Phases
  <2>. QED BY <1>5, <2>1, <2>2, <2>3, <2>4
<1>11. CASE w[x].staged /\ w[x].out = "done"
  <2>1. stage' = NoStage(a) BY <1>11 DEF Return, RemoveStage
  <2>2. StagesKept BY <1>2, <2>1, NoStageKept
  <2>3. stage'[a].key = 0 /\ k # 0 BY <1>2, <1>3, <2>1, Bounds DEF NoStage, StagesTyped
  <2>4. \A b \in Assets : Holds(x, b, stage[b].key) => stage'[b].key # stage[b].key
    BY <2>3 DEF Holds, Asset
  <2>. QED BY <1>1, <1>5, <1>7, <1>8, <1>9, <1>10, <2>2, <2>4, WaitsInv
<1>12. CASE w[x].staged /\ w[x].out # "done" /\ Staged(a, k)
  <2>. DEFINE s == [stage[a] EXCEPT !.state = "ready"]
  <2>1. s \in StageType /\ s.state = "ready" BY <1>2, <1>3 DEF StagesTyped, StageType
  <2>2. stage' = [stage EXCEPT ![a] = s] BY <1>12 DEF Return, RestoreStage
  <2>. HIDE DEF s
  <2>3. StagesKept BY <1>2, <2>1, <2>2, OneStage
  <2>4. stage'[a].state = "ready" BY <1>2, <1>3, <2>1, <2>2 DEF StagesTyped
  <2>5. \A b \in Assets : Holds(x, b, stage[b].key) => stage'[b].state # "processing"
    BY <2>4 DEF Holds, Asset
  <2>. QED BY <1>1, <1>5, <1>7, <1>8, <1>9, <1>10, <2>3, <2>5, WaitsInv
<1>13. CASE ~w[x].staged \/ (w[x].out # "done" /\ ~Staged(a, k))
  <2>1. UNCHANGED stage BY <1>13 DEF Return, RestoreStage
  <2>2. StagesKept BY <1>2, <2>1, StagesSame
  <2>3. \A b \in Assets : ~Holds(x, b, stage[b].key) BY <1>13 DEF Holds, Asset, Staged
  <2>. QED BY <1>1, <1>5, <1>7, <1>8, <1>9, <1>10, <2>2, <2>3, WaitsInv
<1>. QED BY <1>11, <1>12, <1>13

LEMMA WorkerInv == ASSUME IInv, NEW x \in Workers, WorkerStep(x) PROVE IInv'
BY LeavingInv, PrepareInv, ExtractedInv, AnalysedInv, AdoptInv, BeginInv, TakeNodeInv, NoNodeInv,
   UnhealthyInv, MarkProcessingInv, ReturnInv DEF WorkerStep

-----------------------------------------------------------------------------
(* Orders to handlers                                                      *)

\* Every worker stays as it is or is told something.
Told(x) == \/ w'[x] = w[x] \/ w'[x] = [w[x] EXCEPT !.stale = TRUE]
           \/ \E c \in {"priority", "stopped"} : w'[x] = [w[x] EXCEPT !.cause = c]

LEMMA ToldKeeps ==
    ASSUME IInv, w' = [x \in Workers |-> w'[x]], \A x \in Workers : Told(x),
           UNCHANGED <<row, basis, lost, slot>>
    PROVE  WorkKept
<1>1. ASSUME NEW x \in Workers
      PROVE  w'[x] \in WorkerType /\ SameTask(x) /\ SameNode(x) /\ w'[x].at = w[x].at
             /\ w'[x].staged = w[x].staged
  <2>1. w[x] \in WorkerType BY DEF IInv, Typed, WorkersTyped
  <2>2. CASE w'[x] = w[x] BY <2>1, <2>2 DEF SameTask, SameNode
  <2>3. CASE w'[x] = [w[x] EXCEPT !.stale = TRUE]
    BY <2>1, <2>3 DEF WorkerType, SameTask, SameNode
  <2>4. CASE \E c \in {"priority", "stopped"} : w'[x] = [w[x] EXCEPT !.cause = c]
    BY <2>1, <2>4 DEF WorkerType, SameTask, SameNode
  <2>. QED BY <2>2, <2>3, <2>4 DEF Told
<1>2. WorkersTyped' BY <1>1 DEF WorkersTyped
<1>3. RowsKept BY RowsSame DEF IInv, Typed
<1>. QED BY <1>1, <1>2, <1>3 DEF WorkKept

LEMMA PreemptInv == ASSUME IInv, NEW x \in Workers, Preempt(x) PROVE IInv'
<1>1. UNCHANGED <<row, basis, lost, stage, key, slot, queue, delayed, fill>>
  BY DEF Preempt, data, KeepsJobs, jobs, loop
<1>2. WorkersTyped /\ StagesTyped /\ TasksTyped /\ FillTyped /\ RestTyped BY DEF IInv, Typed
<1>3. w' = [w EXCEPT ![x] = [w[x] EXCEPT !.cause = "priority"]] BY DEF Preempt
<1>4. w' = [y \in Workers |-> w'[y]] /\ \A y \in Workers : Told(y) BY <1>2, <1>3 DEF WorkersTyped, Told
<1>5. WorkKept BY <1>1, <1>4, ToldKeeps
<1>6. TasksTyped' /\ FillTyped' /\ RestTyped' BY <1>1, <1>2 DEF TasksTyped, FillTyped, RestTyped
<1>7. StagesKept BY <1>1, <1>2, StagesSame
<1>. QED BY <1>5, <1>6, <1>7, WorkKeptInv

LEMMA StopStepInv == ASSUME IInv, StopStep PROVE IInv'
<1>1. UNCHANGED <<row, basis, lost, key, slot, fill>> BY DEF StopStep, UserKeeps, loop, data
<1>2. WorkersTyped /\ StagesTyped /\ TasksTyped /\ FillTyped /\ RestTyped BY DEF IInv, Typed
<1>3. FillTyped' /\ RestTyped' BY <1>1, <1>2 DEF FillTyped, RestTyped
<1>4. TasksTyped' BY <1>2 DEF StopStep, TasksTyped, jobs
<1>5. WorkKept
  <2>1. CASE UNCHANGED w
    <3>1. w' = [y \in Workers |-> w'[y]] BY <1>2, <2>1 DEF WorkersTyped
    <3>. QED BY <1>1, <2>1, <3>1, ToldKeeps DEF Told
  <2>2. CASE w' = [x \in Workers |-> IF Idle(x) THEN w[x] ELSE [w[x] EXCEPT !.stale = TRUE]]
    <3>1. w' = [y \in Workers |-> w'[y]] /\ \A y \in Workers : Told(y) BY <2>2 DEF Told
    <3>. QED BY <1>1, <3>1, ToldKeeps
  <2>3. CASE w' = [x \in Workers |-> IF Idle(x) \/ Cancelled(x) \/ w[x].at = "return" THEN w[x]
                                     ELSE [w[x] EXCEPT !.cause = "stopped"]]
    <3>1. w' = [y \in Workers |-> w'[y]] /\ \A y \in Workers : Told(y) BY <2>3 DEF Told
    <3>. QED BY <1>1, <3>1, ToldKeeps
  <2>. QED BY <2>1, <2>2, <2>3 DEF StopStep
<1>6. StagesKept
  <2>1. CASE UNCHANGED stage BY <1>2, <2>1, StagesSame
  <2>2. CASE ~UNCHANGED stage
    <3>1. PICK i \in doomed : RemoveStage(i.asset, i.key) BY <2>2 DEF StopStep, data
    <3>. QED BY <1>2, <3>1, NoStageKept DEF RemoveStage
  <2>. QED BY <2>1, <2>2
<1>. QED BY <1>3, <1>4, <1>5, <1>6, WorkKeptInv

-----------------------------------------------------------------------------
(* The backfill loop                                                       *)

LEMMA FillRestsTyped == ASSUME FillTyped, FillRests PROVE FillTyped'
<1>1. fill' = [at |-> "idle", asset |-> fill.asset, key |-> fill.key, old |-> fill.old]
  BY DEF FillTyped, FillRests
<1>. QED BY <1>1 DEF FillTyped

LEMMA FillMovesTyped ==
    ASSUME FillTyped, NEW at, fill' = [fill EXCEPT !.at = at],
           fill.at \in {"extract", "result"} \/ at \notin {"extract", "result"}
    PROVE  FillTyped'
<1>1. fill' = [at |-> at, asset |-> fill.asset, key |-> fill.key, old |-> fill.old]
  BY DEF FillTyped
<1>. QED BY <1>1 DEF FillTyped

LEMMA BackfillInv == ASSUME IInv, Backfill PROVE IInv'
<1>1. RowsTyped /\ StagesTyped /\ TasksTyped /\ FillTyped /\ RestTyped BY DEF IInv, Typed
<1>2. UNCHANGED <<w, slot, delayed, key, basis, lost>>
  BY DEF Backfill, BackfillScan, FinishManualRun, FillItem, Filled, FillCancelled, FillFails, FillResult,
         FillKeeps, data
<1>3. key' \in [Assets -> Keys] BY <1>1, <1>2 DEF RestTyped
<1>4. CASE BackfillScan
  <2>1. UNCHANGED <<row, stage, queue>> BY <1>4 DEF BackfillScan, data
  <2>2. FillTyped' BY <1>1, <1>4, FillMovesTyped DEF BackfillScan, FillTyped
  <2>3. RowsKept /\ StagesKept /\ TasksTyped' BY <1>1, <1>2, <2>1, RowsSame, StagesSame DEF TasksTyped
  <2>. QED BY <1>2, <1>3, <2>2, <2>3, WorkSame
<1>5. CASE FinishManualRun
  <2>1. UNCHANGED <<row, stage, queue>> BY <1>5 DEF FinishManualRun, data
  <2>2. FillTyped' BY <1>1, <1>5, FillRestsTyped DEF FinishManualRun
  <2>3. RowsKept /\ StagesKept /\ TasksTyped' BY <1>1, <1>2, <2>1, RowsSame, StagesSame DEF TasksTyped
  <2>. QED BY <1>2, <1>3, <2>2, <2>3, WorkSame
<1>6. CASE \E i \in Item : FillItem(i)
  <2>1. PICK i \in Item : FillItem(i) BY <1>6
  <2>2. i.asset \in Assets /\ i.key \in Keys /\ key[i.asset] \in Keys BY <1>1 DEF Item, RestTyped
  <2>3. CASE EnqueueStage(i.asset, i.key) /\ UNCHANGED <<fill, stage>>
    <3>. DEFINE t == [asset |-> i.asset, urgent |-> FALSE, attempt |-> 0]
    <3>1. t \in Task BY <2>2, ConstantsAssumption DEF Task, ConstantsAssumption
    <3>2. TasksTyped' BY <1>1, <1>2, <2>3, <3>1, EnqueueTyped DEF EnqueueStage
    <3>3. RowsKept BY <1>1, <1>2, <2>2, <2>3, EnsureKept DEF EnqueueStage
    <3>4. StagesKept /\ FillTyped' BY <1>1, <2>3, StagesSame DEF FillTyped
    <3>. QED BY <1>2, <1>3, <3>2, <3>3, <3>4, WorkSame
  <2>4. CASE ~(EnqueueStage(i.asset, i.key) /\ UNCHANGED <<fill, stage>>)
    <3>1. UNCHANGED <<row, queue>> BY <2>1, <2>4 DEF FillItem
    <3>2. RowsKept /\ TasksTyped' BY <1>1, <1>2, <3>1, RowsSame DEF TasksTyped
    <3>3. FillTyped' /\ StagesKept
      <4>1. CASE UNCHANGED <<fill, stage>> BY <1>1, <4>1, StagesSame DEF FillTyped
      <4>2. CASE Filling("result", i.asset, key[i.asset], i.key) /\ UNCHANGED stage
        BY <1>1, <2>2, <4>2, StagesSame DEF FillTyped, Filling
      <4>3. CASE Filling("extract", i.asset, key[i.asset], i.key) /\ BeginExtract(i.asset, key[i.asset])
        BY <1>1, <2>2, <4>3, BeginExtractKept DEF FillTyped, Filling
      <4>. QED BY <2>1, <2>4, <4>1, <4>2, <4>3 DEF FillItem
    <3>. QED BY <1>2, <1>3, <3>2, <3>3, WorkSame
  <2>. QED BY <2>3, <2>4
<1>7. CASE Filled
  <2>1. UNCHANGED <<row, queue>> BY <1>7 DEF Filled
  <2>2. FillTyped' BY <1>1, <1>7, FillMovesTyped DEF Filled
  <2>3. fill.key \in Keys BY <1>1, <1>7 DEF Filled, FillTyped
  <2>4. StagesKept BY <1>1, <1>7, <2>3, EndExtractKept DEF Filled
  <2>5. RowsKept /\ TasksTyped' BY <1>1, <1>2, <2>1, RowsSame DEF TasksTyped
  <2>. QED BY <1>2, <1>3, <2>2, <2>4, <2>5, WorkSame
<1>8. CASE FillCancelled
  <2>1. UNCHANGED <<row, queue, stage>> BY <1>8 DEF FillCancelled, FailExtract
  <2>2. FillTyped' BY <1>1, <1>8, FillRestsTyped DEF FillCancelled
  <2>3. RowsKept /\ StagesKept /\ TasksTyped' BY <1>1, <1>2, <2>1, RowsSame, StagesSame DEF TasksTyped
  <2>. QED BY <1>2, <1>3, <2>2, <2>3, WorkSame
<1>9. CASE FillFails
  <2>. DEFINE a == fill.asset  r == EnsureQueued(row[a], fill.old)
              f == IF r.status \in {"pending", "failed"} THEN [Processed(r) EXCEPT !.status = "failed"]
                   ELSE IF r.status = "processing" THEN [r EXCEPT !.status = "failed"] ELSE r
  <2>1. UNCHANGED <<queue, stage>> BY <1>9 DEF FillFails, FailExtract
  <2>2. FillTyped' BY <1>1, <1>9, FillRestsTyped DEF FillFails
  <2>3. a \in Assets /\ fill.old \in Keys BY <1>1, <1>9 DEF FillFails, FillTyped
  <2>4. row[a] \in RowType BY <1>1, <2>3 DEF RowsTyped
  <2>5. r \in RowType /\ (r = row[a] \/ r.status = "pending") BY <2>3, <2>4, EnsureQueuedRow
  <2>6. row' = [row EXCEPT ![a] = f] BY <1>9 DEF FillFails
  <2>7. Processed(r) \in RowType BY <2>5, ProcessedRow
  <2>. HIDE DEF r
  <2>8. f \in RowType /\ (f.status = "failed" \/ f = r) /\ f.status \notin {"pending", "processing"}
    <3>1. ASSUME NEW p \in RowType
          PROVE  LET g == [p EXCEPT !.status = "failed"] IN g \in RowType /\ g.status = "failed"
      BY DEF RowType
    <3>2. CASE r.status \in {"pending", "failed"} BY <2>7, <3>1, <3>2
    <3>3. CASE r.status = "processing" BY <2>5, <3>1, <3>3
    <3>4. CASE r.status \notin {"pending", "failed", "processing"} BY <2>5, <3>4
    <3>. QED BY <3>2, <3>3, <3>4
  <2>. HIDE DEF f
  <2>9. RowsKept BY <1>1, <1>2, <2>5, <2>6, <2>8, OneRow
  <2>10. StagesKept /\ TasksTyped' BY <1>1, <1>2, <2>1, StagesSame DEF TasksTyped
  <2>. QED BY <1>2, <1>3, <2>2, <2>9, <2>10, WorkSame
<1>10. CASE FillResult
  <2>1. FillTyped' BY <1>1, <1>10, FillRestsTyped DEF FillResult
  <2>2. fill.asset \in Assets /\ fill.old \in Keys BY <1>1, <1>10 DEF FillResult, FillTyped
  <2>3. CASE Enabled
    <3>. DEFINE t == [asset |-> fill.asset, urgent |-> FALSE, attempt |-> 0]
    <3>1. t \in Task BY <2>2, ConstantsAssumption DEF Task, ConstantsAssumption
    <3>2. EnqueueStage(fill.asset, fill.old) /\ UNCHANGED stage BY <1>10, <2>3 DEF FillResult
    <3>3. TasksTyped' BY <1>1, <1>2, <3>1, <3>2, EnqueueTyped DEF EnqueueStage
    <3>4. RowsKept /\ StagesKept BY <1>1, <1>2, <2>2, <3>2, EnsureKept, StagesSame DEF EnqueueStage
    <3>. QED BY <1>2, <1>3, <2>1, <3>3, <3>4, WorkSame
  <2>4. CASE ~Enabled
    <3>1. UNCHANGED <<row, queue>> /\ stage' = NoStage(fill.asset)
      BY <1>10, <2>4 DEF FillResult, RemoveStage
    <3>2. RowsKept /\ StagesKept /\ TasksTyped' BY <1>1, <1>2, <3>1, RowsSame, NoStageKept DEF TasksTyped
    <3>. QED BY <1>2, <1>3, <2>1, <3>2, WorkSame
  <2>. QED BY <2>3, <2>4
<1>. QED BY <1>4, <1>5, <1>6, <1>7, <1>8, <1>9, <1>10 DEF Backfill
-----------------------------------------------------------------------------
(* Users and the environment                                               *)

LEMMA RetryInv == ASSUME IInv, NEW t \in delayed, RetryFires(t) PROVE IInv'
<1>1. RowsTyped /\ StagesTyped /\ TasksTyped /\ FillTyped /\ RestTyped BY DEF IInv, Typed
<1>2. UNCHANGED <<w, slot, row, stage, basis, lost, key, fill>> BY DEF RetryFires, data, loop
<1>3. TasksTyped' BY <1>1, EnqueueTyped DEF RetryFires, TasksTyped
<1>4. RowsKept /\ StagesKept /\ FillTyped' /\ key' \in [Assets -> Keys]
  BY <1>1, <1>2, RowsSame, StagesSame DEF FillTyped, RestTyped
<1>. QED BY <1>2, <1>3, <1>4, WorkSame

LEMMA UserInv ==
    ASSUME IInv, Start \/ Reindex \/ RetryFailed \/ Stop \/ \E a \in Assets : Reanalyze(a)
    PROVE  IInv'
<1>1. RowsTyped /\ StagesTyped /\ TasksTyped /\ FillTyped /\ RestTyped BY DEF IInv, Typed
<1>2. UNCHANGED <<w, slot, stage, basis, lost, key, fill>>
  BY DEF Start, Reindex, RetryFailed, Stop, Reanalyze, data, UserKeeps, loop
<1>3. StagesKept /\ FillTyped' /\ key' \in [Assets -> Keys] BY <1>1, <1>2, StagesSame DEF FillTyped, RestTyped
<1>4. \A a \in Assets : key[a] \in Keys /\ row[a] \in RowType BY <1>1 DEF RestTyped, RowsTyped
<1>5. CASE Start
  <2>1. \A a \in Assets : row'[a] = EnsureQueued(row[a], key[a]) BY <1>5 DEF Start, EnsureAll
  <2>2. \A a \in Assets : row'[a] = row[a] \/ (row'[a] \in RowType /\ row'[a].status = "pending")
    BY <1>4, <2>1, EnsureQueuedRow
  <2>3. row' = [a \in Assets |-> row'[a]] BY <1>5 DEF Start, EnsureAll
  <2>4. RowsKept BY <1>1, <1>2, <2>2, <2>3, AllRows
  <2>5. TasksTyped' BY <1>1, <1>5 DEF Start, jobs, TasksTyped
  <2>. QED BY <1>2, <1>3, <2>4, <2>5, WorkSame
<1>6. CASE Reindex
  <2>1. \A a \in Assets : row'[a] = Pending(key[a]) BY <1>6 DEF Reindex
  <2>2. \A a \in Assets : row'[a] \in RowType /\ row'[a].status = "pending" BY <1>4, <2>1, PendingTyped
  <2>3. row' = [a \in Assets |-> row'[a]] BY <1>6 DEF Reindex
  <2>4. RowsKept BY <1>1, <1>2, <2>2, <2>3, AllRows
  <2>5. TasksTyped' BY <1>1, <1>6 DEF Reindex, jobs, TasksTyped
  <2>. QED BY <1>2, <1>3, <2>4, <2>5, WorkSame
<1>7. CASE RetryFailed
  <2>1. \A a \in Assets : row'[a] = row[a] \/ row'[a] = Pending(key[a]) BY <1>7 DEF RetryFailed
  <2>2. \A a \in Assets : row'[a] = row[a] \/ (row'[a] \in RowType /\ row'[a].status = "pending")
    BY <1>4, <2>1, PendingTyped
  <2>3. row' = [a \in Assets |-> row'[a]] BY <1>7 DEF RetryFailed
  <2>4. RowsKept BY <1>1, <1>2, <2>2, <2>3, AllRows
  <2>5. TasksTyped' BY <1>1, <1>7 DEF RetryFailed, jobs, TasksTyped
  <2>. QED BY <1>2, <1>3, <2>4, <2>5, WorkSame
<1>8. CASE Stop
  <2>1. UNCHANGED <<row, queue, delayed>> BY <1>8 DEF Stop, data, jobs
  <2>2. RowsKept /\ TasksTyped' BY <1>1, <1>2, <2>1, RowsSame DEF TasksTyped
  <2>. QED BY <1>2, <1>3, <2>2, WorkSame
<1>9. ASSUME NEW a \in Assets, Reanalyze(a) PROVE IInv'
  <2>. DEFINE t == [asset |-> a, urgent |-> TRUE, attempt |-> 0]  p == Pending(key[a])
  <2>1. t \in Task BY ConstantsAssumption DEF Task, ConstantsAssumption
  <2>2. TasksTyped' BY <1>1, <1>9, <2>1, EnqueueTyped DEF Reanalyze
  <2>3. p \in RowType /\ p.status = "pending" BY <1>4, PendingTyped
  <2>4. row' = [row EXCEPT ![a] = p] BY <1>9 DEF Reanalyze
  <2>. HIDE DEF p
  <2>5. RowsKept BY <1>1, <1>2, <2>3, <2>4, OneRow
  <2>. QED BY <1>2, <1>3, <2>2, <2>5, WorkSame
<1>. QED BY <1>5, <1>6, <1>7, <1>8, <1>9

LEMMA WorldInv ==
    ASSUME IInv, \/ Signals \/ \E a \in Assets : Rescan(a)
                 \/ \E a \in Assets, k \in Keys : Evict(a, k) \/ CleanupAbandoned(a, k)
    PROVE  IInv'
<1>1. RowsTyped /\ StagesTyped /\ TasksTyped /\ FillTyped /\ RestTyped BY DEF IInv, Typed
<1>2. UNCHANGED <<w, slot, row, basis, lost, fill, queue, delayed>>
  BY DEF Signals, Rescan, Evict, CleanupAbandoned, data, loop, jobs
<1>3. RowsKept /\ TasksTyped' /\ FillTyped' BY <1>1, <1>2, RowsSame DEF TasksTyped, FillTyped
<1>4. CASE Signals
  <2>1. StagesKept /\ key' \in [Assets -> Keys] BY <1>1, <1>4, StagesSame DEF Signals, data, RestTyped
  <2>. QED BY <1>2, <1>3, <2>1, WorkSame
<1>5. ASSUME NEW a \in Assets, Rescan(a) PROVE IInv'
  <2>1. key[a] + 1 \in Keys BY <1>1, <1>5, Bounds DEF Rescan, RestTyped, Keys
  <2>2. key' \in [Assets -> Keys] BY <1>1, <1>5, <2>1 DEF Rescan, RestTyped
  <2>3. StagesKept BY <1>1, <1>5, StagesSame DEF Rescan
  <2>. QED BY <1>2, <1>3, <2>2, <2>3, WorkSame
<1>6. ASSUME NEW a \in Assets, NEW k \in Keys, Evict(a, k) \/ CleanupAbandoned(a, k) PROVE IInv'
  <2>1. UNCHANGED key BY <1>6 DEF Evict, CleanupAbandoned
  <2>2. Staged(a, k) \in BOOLEAN BY DEF Staged
  <2>3. stage' = IF Staged(a, k) THEN NoStage(a) ELSE stage BY <1>6 DEF Evict, CleanupAbandoned
  <2>4. StagesKept BY <1>1, <2>2, <2>3, NoStageIfKept
  <2>5. key' \in [Assets -> Keys] BY <1>1, <2>1 DEF RestTyped
  <2>. QED BY <1>2, <1>3, <2>4, <2>5, WorkSame
<1>. QED BY <1>4, <1>5, <1>6

\* A start finds no handler, and leaves nothing in processing.
LEMMA RestartInv == ASSUME IInv, Restart PROVE IInv'
<1>1. RowsTyped /\ StagesTyped /\ FillTyped /\ RestTyped BY DEF IInv, Typed
<1>2. WorkersTyped' /\ \A x \in Workers : w'[x] = Resting
  BY RestingTyped DEF Restart, WorkersTyped
<1>3. Resting.at = "idle" /\ ~Resting.staged BY DEF Resting
<1>4. ASSUME NEW a \in Assets
      PROVE  /\ row'[a] \in RowType /\ row'[a].status # "processing" /\ row'[a].key = row[a].key
             /\ row'[a].status = "ready" => row[a].status = "ready"
  <2>1. row[a] \in RowType BY <1>1 DEF RowsTyped
  <2>2. row'[a] = IF row[a].status = "processing" THEN [row[a] EXCEPT !.status = "pending"] ELSE row[a]
    BY DEF Restart
  <2>. QED BY <2>1, <2>2 DEF RowType
<1>5. RowsTyped' BY <1>1, <1>4 DEF Restart, RowsTyped
<1>6. ASSUME NEW a \in Assets PROVE stage'[a] \in StageType /\ stage'[a].state = "ready"
  <2>1. stage[a] \in StageType BY <1>1 DEF StagesTyped
  <2>2. \/ stage'[a] = stage[a] /\ stage[a].state = "ready"
        \/ stage'[a] = [key |-> 0, state |-> "ready"]
    BY DEF Restart
  <2>3. [key |-> 0, state |-> "ready"] \in StageType BY Bounds DEF StageType
  <2>. QED BY <2>1, <2>2, <2>3
<1>7. StagesTyped' BY <1>6 DEF Restart, StagesTyped
<1>8. TasksTyped' BY DEF Restart, TasksTyped
<1>9. FillTyped' BY <1>1, FillRestsTyped DEF Restart
<1>10. RestTyped' BY <1>1 DEF Restart, RestTyped
<1>11. Typed' BY <1>2, <1>5, <1>7, <1>8, <1>9, <1>10 DEF Typed
<1>12. IdleInv' BY <1>2, <1>3 DEF IdleInv, Idle
<1>13. SlotInv'
  <2>1. "idle" \notin HasNode BY DEF HasNode, Phases
  <2>. QED BY <1>2, <1>3, <2>1 DEF SlotInv
<1>14. RowHeld' /\ StageHeld' BY <1>4, <1>6 DEF RowHeld, StageHeld
<1>15. ReadyMatchesInput' BY <1>4 DEF Restart, IInv, ReadyMatchesInput
<1>. QED BY <1>11, <1>12, <1>13, <1>14, <1>15 DEF IInv

LEMMA StepInv == ASSUME IInv, [Next]_vars PROVE IInv'
<1>1. CASE UNCHANGED vars
  <2>1. UNCHANGED <<w, slot, row, stage, basis, lost, key, fill, queue, delayed>>
    BY <1>1 DEF vars, data, jobs, loop
  <2>2. RowsTyped /\ StagesTyped /\ TasksTyped /\ FillTyped /\ RestTyped BY DEF IInv, Typed
  <2>3. RowsKept /\ StagesKept /\ TasksTyped' /\ FillTyped' /\ key' \in [Assets -> Keys]
    BY <2>1, <2>2, RowsSame, StagesSame DEF TasksTyped, FillTyped, RestTyped
  <2>. QED BY <2>1, <2>3, WorkSame
<1>2. CASE Next
  BY <1>2, WorkerInv, PreemptInv, RetryInv, BackfillInv, StopStepInv, WorldInv, RestartInv, UserInv DEF Next
<1>. QED BY <1>1, <1>2

THEOREM Invariance == Spec => []IInv
<1>. QED BY InitInv, StepInv, PTL DEF Spec

\* A row or stage in processing always belongs to a handler that will report
\* on it or release it (Processor.Handle), but for reports lost to a cancelled
\* context.
THEOREM WorkIsHeld == Spec => []ProcessingIsHeld
<1>1. IInv => ProcessingIsHeld
  BY DEF IInv, RowHeld, StageHeld, Reports, ProcessingIsHeld
<1>. QED BY <1>1, Invariance, PTL

\* A saved result is recorded for the version its frames were made of
\* (SaveAIResult), whatever scans and user requests came in between.
THEOREM ResultsMatchInput == Spec => []ReadyMatchesInput
<1>1. IInv => ReadyMatchesInput BY DEF IInv
<1>. QED BY <1>1, Invariance, PTL

-----------------------------------------------------------------------------
(* Who halts an analysis                                                   *)

HaltsOnlyOwn ==
    \A x \in Workers :
       /\ w[x].at = "analyse" /\ w'[x].at = "analyse"
       /\ w[x].node \notin halted /\ w[x].node \in halted'
       => stopAt = "pause"

\* An interrupted handler halts the node it has, which no other one has.
LEMMA OwnNode ==
    ASSUME IInv, NEW x \in Workers, NEW y \in Workers, w[x].at = "analyse", w[y].at \in HasNode,
           w[y].node = w[x].node
    PROVE  x = y
BY DEF IInv, SlotInv, HasNode, Phases

LEMMA LeavingHalts ==
    ASSUME IInv, NEW y \in Workers, Recheck(y) \/ ExtractFails(y) \/ AnalysisFails(y) \/ SaveResult(y)
    PROVE  HaltsOnlyOwn
<1>1. w[y].at \in HasNode
  BY DEF Recheck, ExtractFails, AnalysisFails, SaveResult, HasNode, Phases
<1>2. halted' \subseteq halted \cup {w[y].node}
  BY DEF Recheck, ExtractFails, AnalysisFails, SaveResult, Interrupt, GiveWay
<1>3. CASE UNCHANGED halted BY <1>3 DEF HaltsOnlyOwn
<1>4. CASE ~UNCHANGED halted
  <2>1. \E out \in Outcomes : Leave(y, out)
    BY <1>4 DEF Recheck, ExtractFails, AnalysisFails, SaveResult, Interrupt, GiveWay, Outcomes
  <2>2. w'[y].at = "return" BY <2>1, LeaveDoes DEF IInv, Typed
  <2>. QED BY <1>1, <1>2, <2>2, OwnNode DEF HaltsOnlyOwn
<1>. QED BY <1>3, <1>4

LEMMA WorkerHalts == ASSUME IInv, NEW y \in Workers, WorkerStep(y) PROVE HaltsOnlyOwn
<1>1. CASE Recheck(y) \/ ExtractFails(y) \/ AnalysisFails(y) \/ SaveResult(y) BY <1>1, LeavingHalts
<1>2. CASE \E n \in Nodes : TakeNode(y, n) BY <1>2 DEF TakeNode, HaltsOnlyOwn
<1>3. CASE Begin(y) \/ NoNode(y) \/ Unhealthy(y) \/ MarkProcessing(y) \/ Prepare(y) \/ Extracted(y)
           \/ Adopt(y) \/ Analysed(y) \/ Return(y)
  BY <1>3 DEF Begin, NoNode, Unhealthy, MarkProcessing, Prepare, Extracted, Adopt, Analysed, Return, HaltsOnlyOwn
<1>. QED BY <1>1, <1>2, <1>3 DEF WorkerStep

LEMMA StepHalts == ASSUME IInv, [Next]_vars PROVE HaltsOnlyOwn
<1>1. CASE \E y \in Workers : WorkerStep(y) BY <1>1, WorkerHalts
<1>2. CASE StopStep
  <2>1. UNCHANGED halted \/ stopAt = "pause" BY <1>2 DEF StopStep
  <2>. QED BY <2>1 DEF HaltsOnlyOwn
<1>3. CASE ~StopStep /\ ~\E y \in Workers : WorkerStep(y)
  <2>1. UNCHANGED halted
    BY <1>3 DEF Next, vars, Preempt, RetryFires, Backfill, BackfillScan, FinishManualRun, FillItem, Filled,
       FillCancelled, FillFails, FillResult, FillKeeps, Signals, Restart, Start, Reindex, RetryFailed, Stop,
       Reanalyze, Rescan, Evict, CleanupAbandoned
  <2>. QED BY <2>1 DEF HaltsOnlyOwn
<1>. QED BY <1>1, <1>2, <1>3

\* An analysis is halted at its node by its own handler or by a user's stop,
\* never by a handler that gives way (Processor.interrupt): a node with an
\* analysis in progress has no other handler.
THEOREM AnalysisHaltedByOwner == Spec => OnlyStopHaltsOthers
<1>1. IInv /\ [Next]_vars => [HaltsOnlyOwn]_vars BY StepHalts
<1>2. Spec => [][HaltsOnlyOwn]_vars BY <1>1, Invariance, PTL DEF Spec
<1>. QED BY <1>2 DEF OnlyStopHaltsOthers, HaltsOnlyOwn
=============================================================================
