------------------------- MODULE Maintenance_proof -------------------------
(***************************************************************************)
(* Proofs about Maintenance: the system tasks, the deletion of media and   *)
(* the lists, in one inductive invariant.  Its three parts speak of        *)
(* different variables; a step of one part leaves the others' invariants   *)
(* alone, and a step of several is proved part by part.  What a list       *)
(* promises holds of every state with rows and a view of it: it follows    *)
(* from the order its sort keys make, and needs no step.                   *)
(***************************************************************************)
EXTENDS Maintenance, FunctionTheorems, FiniteSetTheorems, NaturalsInduction, WellFoundedInduction, SequenceTheorems,
        TLAPS

WorkTyped == work \in [Kind -> Tasks!WorkItem]
RecTyped ==
    /\ rec \in [Tasks!Tasks -> {"none", "running", "success", "warning", "failed", "stopped"}]
    /\ rec["storage_health_check"] \in {"none", "running", "success", "failed"}
AITyped == ai \in [auto : BOOLEAN, manual : BOOLEAN]
DupTyped == dup \in [pc : {"idle", "flagged", "loop", "recorded"}, auto : BOOLEAN, stop : BOOLEAN,
                     seen : BOOLEAN, failed : BOOLEAN, tries : Nat]
CleanTyped == clean \in [kind : {"none", "orphan", "scheduled", "all"},
                         pc : {"idle", "begin", "work", "clear"}, stop : BOOLEAN]
CheckTyped == check \in [{"request", "clock"} -> [pc : {"idle", "probe", "act", "finish", "recover"},
                                                  prev : {"none", "running", "success", "failed"},
                                                  bad : BOOLEAN, left : BOOLEAN]]
ResetTyped == reset \in [pc : {"idle", "stop", "wait", "clear", "truncate", "restore"}, auto : BOOLEAN]
RestTyped ==
    /\ root \in {"up", "gone", "failing"} /\ scan \in {"idle", "runs", "stopping"}
    /\ sched \in {"idle", "begin", "count"} /\ unhashed \in BOOLEAN /\ crashed \in BOOLEAN
    /\ cut \subseteq Kind \cup {"scan", "cleanup"} /\ left \in 0..Budget
TasksTyped == /\ WorkTyped /\ RecTyped /\ AITyped /\ DupTyped /\ CleanTyped /\ CheckTyped
              /\ ResetTyped /\ RestTyped

LEMMA TasksTypeParts == Tasks!TasksTypeOK <=> TasksTyped
BY DEF Tasks!TasksTypeOK, TasksTyped, WorkTyped, RecTyped, AITyped, DupTyped, CleanTyped, CheckTyped,
       ResetTyped, RestTyped

\* What the reset found at work is still at work, or has been struck off; when it
\* has seen that all is quiet, nothing is left.
CutInv ==
    /\ \A k \in cut \cap Kind : work[k].active # "no"
    /\ "scan" \in cut => scan # "idle"
    /\ "cleanup" \in cut => clean.kind # "none"
    /\ reset.pc \in {"clear", "truncate"} => cut \cap (Waited \cup {"scan", "cleanup"}) = {}

\* A cleanup that writes records is one of a request or of the clock; the record
\* says "running" only between its two writes, unless the process ended there.
CleanupInv ==
    /\ clean.pc = "idle" <=> clean.kind = "none"
    /\ clean.pc = "begin" => clean.kind \in {"orphan", "scheduled"}
RecordsInv ==
    /\ dup.pc = "loop" => rec["duplicate_scan"] \in {"running", "none"}
    /\ clean.pc = "work" /\ clean.kind # "all" /\ ~clean.stop
         => rec["cache_cleanup"] \in {"running", "none"}
    /\ rec["cache_cleanup"] = "running"
         => crashed \/ (clean.kind \in {"orphan", "scheduled"} /\ clean.pc = "work")

TasksInv == TasksTyped /\ CutInv /\ CleanupInv /\ RecordsInv

LEMMA Kinds ==
  /\ "ai_analyze" \in Kind /\ Waited \subseteq Kind /\ Budget \in Nat
  /\ Kind \cap {"duplicate_scan", "cache_cleanup", "storage_health_check", "scan", "cleanup"} = {}
BY MaintenanceAssumption DEF MaintenanceAssumption

-----------------------------------------------------------------------------
(* What is made of an item of work                                         *)

LEMMA HaltedTyped ==
  ASSUME NEW w \in Tasks!WorkItem
  PROVE  /\ Tasks!Cleared(w) \in Tasks!WorkItem /\ Tasks!Cancelled(w) \in Tasks!WorkItem
         /\ Tasks!Halted(w) \in Tasks!WorkItem
<1>1. ASSUME NEW u \in Tasks!WorkItem
      PROVE  Tasks!Cleared(u) \in Tasks!WorkItem /\ Tasks!Cancelled(u) \in Tasks!WorkItem
  BY DEF Tasks!Cleared, Tasks!Cancelled, Tasks!WorkItem
<1>2. Tasks!Cleared(w) \in Tasks!WorkItem BY <1>1
<1>3. Tasks!Cancelled(Tasks!Cleared(w)) \in Tasks!WorkItem BY <1>1, <1>2
<1>. QED BY <1>1, <1>3 DEF Tasks!Halted

LEMMA StoppedTyped == ASSUME WorkTyped, NEW k \in Kind PROVE Tasks!Stopped(k) \in Tasks!WorkItem
<1>1. Tasks!Halted(work[k]) \in Tasks!WorkItem BY HaltedTyped DEF WorkTyped
<1>. QED BY <1>1 DEF Tasks!Stopped, Tasks!Requeued, Tasks!WorkItem

LEMMA WorkAfterStop == ASSUME WorkTyped, NEW k \in Kind, Tasks!StopTask(k) PROVE WorkTyped'
<1>1. work' = [work EXCEPT ![k] = Tasks!Stopped(k)] BY DEF Tasks!StopTask
<1>. QED BY <1>1, StoppedTyped DEF WorkTyped

LEMMA WorkAfterRun ==
  ASSUME WorkTyped, NEW k \in Tasks!MediaKind, NEW action \in {"continue", "rebuild", "retry_failed"},
         Tasks!RunMediaTask(k, action)
  PROVE  WorkTyped'
<1>. DEFINE States == {"none", "pending", "processing", "failed", "ready"}
<1>1. PICK d \in States, q \in BOOLEAN : work' = [work EXCEPT ![k].db = d, ![k].queued = q]
  <2>. DEFINE d == IF action = "rebuild" THEN Tasks!Rebuilt(work[k].db) ELSE Tasks!Retried(work[k].db)
              wanted == IF action = "retry_failed" THEN Tasks!Busy(k) /\ work[k].db = "failed"
                        ELSE d \in {"pending", "processing"}
  <2>1. d \in States BY DEF WorkTyped, Tasks!Rebuilt, Tasks!Retried, Tasks!WorkItem, Tasks!MediaKind
  <2>2. work' = [work EXCEPT ![k].db = d, ![k].queued = @ \/ wanted] BY DEF Tasks!RunMediaTask
  <2>3. (work[k].queued \/ wanted) \in BOOLEAN OBVIOUS
  <2>. QED BY <2>1, <2>2, <2>3 DEF WorkTyped, Tasks!WorkItem, Tasks!MediaKind
<1>. DEFINE item == [work[k] EXCEPT !.db = d, !.queued = q]
<1>2. k \in Kind BY DEF Tasks!MediaKind
<1>3. item \in Tasks!WorkItem BY <1>2 DEF WorkTyped, Tasks!WorkItem
<1>4. work' = [work EXCEPT ![k] = item] BY <1>1, <1>2 DEF WorkTyped
<1>. HIDE DEF item
<1>. QED BY <1>3, <1>4 DEF WorkTyped

LEMMA WorkAfterCheck ==
  ASSUME WorkTyped, NEW c \in {"request", "clock"}, Tasks!ActOnCheck(c) PROVE WorkTyped'
<1>1. \/ work' = [k \in Kind |-> Tasks!Cancelled(work[k])] \/ work' = [k \in Kind |-> Tasks!Stopped(k)]
      \/ work' = Tasks!AIReturns(work) \/ work' = work
  BY DEF Tasks!ActOnCheck
<1>2. CASE work' = [k \in Kind |-> Tasks!Cancelled(work[k])] BY <1>2, HaltedTyped DEF WorkTyped
<1>3. CASE work' = [k \in Kind |-> Tasks!Stopped(k)] BY <1>3, StoppedTyped DEF WorkTyped
<1>4. CASE work' = Tasks!AIReturns(work)
  <2>. DEFINE old == work["ai_analyze"]
              db == IF Tasks!CanBeRead("ai_analyze") THEN Tasks!Retried(old.db) ELSE old.db
              item == [old EXCEPT !.db = db]
  <2>1. old \in Tasks!WorkItem BY Kinds DEF WorkTyped
  <2>2. item \in Tasks!WorkItem BY <2>1 DEF Tasks!Retried, Tasks!WorkItem
  <2>3. work' = [work EXCEPT !["ai_analyze"] = item] BY <1>4 DEF Tasks!AIReturns
  <2>. HIDE DEF item
  <2>. QED BY <2>2, <2>3 DEF WorkTyped
<1>5. CASE work' = work BY <1>5 DEF WorkTyped
<1>. QED BY <1>1, <1>2, <1>3, <1>4, <1>5

LEMMA WorkAfterHalt == ASSUME WorkTyped, Tasks!StopEverything PROVE WorkTyped'
<1>1. work' = [k \in Kind |-> Tasks!Cleared(work[k])] \/ work' = work BY DEF Tasks!StopEverything
<1>. QED BY <1>1, HaltedTyped DEF WorkTyped

LEMMA CleanAfterHalt == ASSUME CleanTyped, Tasks!StopEverything PROVE CleanTyped'
<1>1. clean' = [clean EXCEPT !.stop = clean.kind \in {"orphan", "scheduled"}] BY DEF Tasks!StopEverything
<1>2. (clean.kind \in {"orphan", "scheduled"}) \in BOOLEAN OBVIOUS
<1>. QED BY <1>1, <1>2 DEF CleanTyped

LEMMA CheckAfterLeave == ASSUME CheckTyped, Tasks!ClientLeaves PROVE CheckTyped'
<1>1. check' = [check EXCEPT !["request"] = [check["request"] EXCEPT !.left = TRUE]]
  BY DEF Tasks!ClientLeaves
<1>. QED BY <1>1 DEF CheckTyped

LEMMA RestAfterRestart == ASSUME RestTyped, Tasks!Restart PROVE RestTyped'
<1>1. /\ root' = root /\ scan' = "idle" /\ sched' = "idle" /\ unhashed' = unhashed /\ crashed' = TRUE
      /\ cut' = {} /\ left > 0 /\ left' = left - 1
  BY DEF Tasks!Restart, Tasks!Spend
<1>. QED BY <1>1, Kinds DEF RestTyped

-----------------------------------------------------------------------------
(* The work of each kind and the scanner                                   *)

LEMMA WorkSteps == TasksInv /\ Tasks!WorkNext => TasksInv'
<1>. SUFFICES ASSUME TasksInv, Tasks!WorkNext PROVE TasksInv' OBVIOUS
<1>0. TasksTyped /\ CutInv /\ CleanupInv /\ RecordsInv BY DEF TasksInv
<1>1. ASSUME NEW k \in Kind, Tasks!Supply(k) PROVE TasksInv'
  <2>1. TasksTyped'
    <3>1. WorkTyped' BY <1>0, <1>1 DEF Tasks!Supply, Tasks!memory, Tasks!past,
        WorkTyped, Tasks!WorkItem, TasksTyped
    <3>2. RecTyped' /\ AITyped' /\ DupTyped' /\ CleanTyped' /\ CheckTyped' /\ ResetTyped' /\ RestTyped'
      BY <1>0, <1>1 DEF Tasks!Supply, Tasks!memory, Tasks!past, RecTyped, AITyped, DupTyped, CleanTyped,
          CheckTyped, ResetTyped, RestTyped, TasksTyped
    <3>. QED BY <3>1, <3>2 DEF TasksTyped
  <2>2. CutInv' BY <1>0, <1>1 DEF Tasks!Supply, Tasks!memory, Tasks!past, CutInv,
      TasksTyped, WorkTyped, CleanTyped, ResetTyped, CleanupInv, Tasks!WorkItem
  <2>3. CleanupInv' /\ RecordsInv'
    BY <1>0, <1>1 DEF Tasks!Supply, Tasks!memory,
      Tasks!past, CleanupInv, RecordsInv, TasksTyped, DupTyped, RecTyped, CleanTyped,
      Tasks!Tasks
  <2>. QED BY <2>1, <2>2, <2>3 DEF TasksInv
<1>2. ASSUME NEW k \in Kind, Tasks!Take(k) PROVE TasksInv'
  <2>1. TasksTyped'
    BY <1>0, <1>2 DEF Tasks!Take, Tasks!memory, Tasks!past, WorkTyped, RecTyped,
        AITyped, DupTyped, CleanTyped, CheckTyped, ResetTyped, RestTyped, Tasks!WorkItem, Tasks!Tasks,
        TasksTyped
  <2>2. CutInv' BY <1>0, <1>2 DEF Tasks!Take, Tasks!memory, Tasks!past, CutInv,
      TasksTyped, WorkTyped, CleanTyped, ResetTyped, CleanupInv, Tasks!WorkItem
  <2>3. CleanupInv' /\ RecordsInv'
    BY <1>0, <1>2 DEF Tasks!Take, Tasks!memory,
      Tasks!past, CleanupInv, RecordsInv, TasksTyped, DupTyped, RecTyped, CleanTyped,
      Tasks!Tasks
  <2>. QED BY <2>1, <2>2, <2>3 DEF TasksInv
<1>3. ASSUME NEW k \in Kind, Tasks!WorkEnds(k) PROVE TasksInv'
  <2>1. TasksTyped'
    BY <1>0, <1>3 DEF Tasks!WorkEnds, Tasks!memory, WorkTyped, RecTyped, AITyped,
        DupTyped, CleanTyped, CheckTyped, ResetTyped, RestTyped, Tasks!WorkItem, Tasks!Tasks, TasksTyped
  <2>2. CutInv' BY <1>0, <1>3 DEF Tasks!WorkEnds, Tasks!memory, CutInv, TasksTyped,
      WorkTyped, CleanTyped, ResetTyped, CleanupInv, Tasks!WorkItem
  <2>3. CleanupInv' /\ RecordsInv'
    BY <1>0, <1>3 DEF Tasks!WorkEnds,
      Tasks!memory, CleanupInv, RecordsInv, TasksTyped, DupTyped, RecTyped, CleanTyped, Tasks!Tasks
  <2>. QED BY <2>1, <2>2, <2>3 DEF TasksInv
<1>4. ASSUME NEW k \in Kind, Tasks!StopTask(k) PROVE TasksInv'
  <2>1. TasksTyped'
    <3>1. WorkTyped' BY <1>0, <1>4, WorkAfterStop DEF TasksTyped
    <3>2. RecTyped' BY <1>0, <1>4, Kinds DEF Tasks!StopTask, Tasks!Spend, Tasks!Stopped,
        Tasks!Halted, Tasks!Cancelled, Tasks!Cleared, Tasks!MediaKind, Tasks!Requeued, Tasks!memory,
        Tasks!past, RecTyped, Tasks!Tasks, TasksTyped
    <3>3. AITyped' BY <1>0, <1>4 DEF Tasks!StopTask, Tasks!Spend, Tasks!Stopped,
        Tasks!Halted, Tasks!Cancelled, Tasks!Cleared, Tasks!MediaKind, Tasks!Requeued, Tasks!memory,
        Tasks!past, AITyped, TasksTyped
    <3>4. RestTyped' BY <1>0, <1>4, Kinds DEF Tasks!StopTask, Tasks!Spend, Tasks!Stopped,
        Tasks!Halted, Tasks!Cancelled, Tasks!Cleared, Tasks!MediaKind, Tasks!Requeued, Tasks!memory,
        Tasks!past, RestTyped, TasksTyped
    <3>5. DupTyped' /\ CleanTyped' /\ CheckTyped' /\ ResetTyped'
      BY <1>0, <1>4 DEF Tasks!StopTask, Tasks!memory, Tasks!past, DupTyped, CleanTyped, CheckTyped,
          ResetTyped, TasksTyped
    <3>. QED BY <3>1, <3>2, <3>3, <3>4, <3>5 DEF TasksTyped
  <2>2. CutInv' BY <1>0, <1>4 DEF Tasks!StopTask, Tasks!Spend, Tasks!Stopped,
      Tasks!Halted, Tasks!Cancelled, Tasks!Cleared, Tasks!MediaKind, Tasks!Requeued, Tasks!memory,
      Tasks!past, CutInv, TasksTyped, WorkTyped, CleanTyped, ResetTyped, CleanupInv,
      Tasks!WorkItem
  <2>3. CleanupInv' /\ RecordsInv'
    BY <1>0, <1>4, Kinds DEF Tasks!StopTask, Tasks!Spend,
      Tasks!Stopped, Tasks!Halted, Tasks!Cancelled, Tasks!Cleared, Tasks!MediaKind, Tasks!Requeued,
      Tasks!memory, Tasks!past, CleanupInv, RecordsInv, TasksTyped, DupTyped, RecTyped, CleanTyped, Tasks!Tasks
  <2>. QED BY <2>1, <2>2, <2>3 DEF TasksInv
<1>5. ASSUME NEW k \in Tasks!MediaKind, NEW action \in {"continue", "rebuild", "retry_failed"}, Tasks!RunMediaTask(k, action) PROVE TasksInv'
  <2>1. TasksTyped'
    <3>1. WorkTyped' BY <1>0, <1>5, WorkAfterRun DEF TasksTyped
    <3>2. RecTyped' BY <1>0, <1>5 DEF Tasks!RunMediaTask, Tasks!Spend,
        Tasks!Admitted, Tasks!Busy, Tasks!Rebuilt, Tasks!Retried, Tasks!memory, Tasks!past, RecTyped,
        Tasks!MediaKind, Tasks!Tasks, TasksTyped
    <3>3. RestTyped' BY <1>0, <1>5, Kinds DEF Tasks!RunMediaTask, Tasks!Spend,
        Tasks!Admitted, Tasks!Busy, Tasks!Rebuilt, Tasks!Retried, Tasks!memory, Tasks!past, RestTyped,
        TasksTyped
    <3>4. AITyped' /\ DupTyped' /\ CleanTyped' /\ CheckTyped' /\ ResetTyped'
      BY <1>0, <1>5 DEF Tasks!RunMediaTask, Tasks!memory, Tasks!past, AITyped, DupTyped, CleanTyped,
          CheckTyped, ResetTyped, TasksTyped
    <3>. QED BY <3>1, <3>2, <3>3, <3>4 DEF TasksTyped
  <2>2. CutInv' BY <1>0, <1>5 DEF Tasks!RunMediaTask, Tasks!Spend, Tasks!Admitted,
      Tasks!Busy, Tasks!Rebuilt, Tasks!Retried, Tasks!memory, Tasks!past, CutInv, TasksTyped, WorkTyped,
      CleanTyped, ResetTyped, CleanupInv, Tasks!WorkItem
  <2>3. CleanupInv' /\ RecordsInv'
    BY <1>0, <1>5, Kinds DEF Tasks!RunMediaTask,
      Tasks!Spend, Tasks!Admitted, Tasks!Busy, Tasks!Rebuilt, Tasks!Retried, Tasks!memory, Tasks!past,
      CleanupInv, RecordsInv, TasksTyped, DupTyped, RecTyped, CleanTyped,
      Tasks!MediaKind, Tasks!Tasks
  <2>. QED BY <2>1, <2>2, <2>3 DEF TasksInv
<1>6. ASSUME NEW action \in {"continue", "rebuild", "retry_failed"}, Tasks!RunAITask(action) PROVE TasksInv'
  <2>1. TasksTyped'
    <3>1. WorkTyped' BY <1>0, <1>6, Kinds DEF Tasks!RunAITask, Tasks!Spend, Tasks!Admitted,
        Tasks!Busy, Tasks!Rebuilt, Tasks!Requeued, Tasks!Retried, Tasks!memory, Tasks!past, WorkTyped,
        Tasks!WorkItem, TasksTyped
    <3>2. RecTyped' BY <1>0, <1>6 DEF Tasks!RunAITask, Tasks!Spend, Tasks!Admitted,
        Tasks!Busy, Tasks!Rebuilt, Tasks!Requeued, Tasks!Retried, Tasks!memory, Tasks!past, RecTyped,
        Tasks!Tasks, TasksTyped
    <3>3. AITyped' BY <1>0, <1>6 DEF Tasks!RunAITask, Tasks!Spend, Tasks!Admitted,
        Tasks!Busy, Tasks!Rebuilt, Tasks!Requeued, Tasks!Retried, Tasks!memory, Tasks!past, AITyped,
        TasksTyped
    <3>4. RestTyped' BY <1>0, <1>6, Kinds DEF Tasks!RunAITask, Tasks!Spend, Tasks!Admitted,
        Tasks!Busy, Tasks!Rebuilt, Tasks!Requeued, Tasks!Retried, Tasks!memory, Tasks!past, RestTyped,
        TasksTyped
    <3>5. DupTyped' /\ CleanTyped' /\ CheckTyped' /\ ResetTyped'
      BY <1>0, <1>6 DEF Tasks!RunAITask, Tasks!memory, Tasks!past, DupTyped, CleanTyped, CheckTyped,
          ResetTyped, TasksTyped
    <3>. QED BY <3>1, <3>2, <3>3, <3>4, <3>5 DEF TasksTyped
  <2>2. CutInv' BY <1>0, <1>6 DEF Tasks!RunAITask, Tasks!Spend, Tasks!Admitted,
      Tasks!Busy, Tasks!Rebuilt, Tasks!Requeued, Tasks!Retried, Tasks!memory, Tasks!past, CutInv,
      TasksTyped, WorkTyped, CleanTyped, ResetTyped, CleanupInv, Tasks!WorkItem
  <2>3. CleanupInv' /\ RecordsInv'
    BY <1>0, <1>6 DEF Tasks!RunAITask,
      Tasks!Spend, Tasks!Admitted, Tasks!Busy, Tasks!Rebuilt, Tasks!Requeued, Tasks!Retried, Tasks!memory,
      Tasks!past, CleanupInv, RecordsInv, TasksTyped, DupTyped, RecTyped, CleanTyped,
      Tasks!Tasks
  <2>. QED BY <2>1, <2>2, <2>3 DEF TasksInv
<1>7. ASSUME Tasks!ToggleAI PROVE TasksInv'
  <2>1. TasksTyped'
    <3>1. AITyped' BY <1>0, <1>7 DEF Tasks!ToggleAI, Tasks!Spend, Tasks!memory,
        Tasks!past, AITyped, TasksTyped
    <3>2. RestTyped' BY <1>0, <1>7, Kinds DEF Tasks!ToggleAI, Tasks!Spend, Tasks!memory,
        Tasks!past, RestTyped, TasksTyped
    <3>3. WorkTyped' /\ RecTyped' /\ DupTyped' /\ CleanTyped' /\ CheckTyped' /\ ResetTyped'
      BY <1>0, <1>7 DEF Tasks!ToggleAI, Tasks!memory, Tasks!past, WorkTyped, RecTyped, DupTyped, CleanTyped,
          CheckTyped, ResetTyped, TasksTyped
    <3>. QED BY <3>1, <3>2, <3>3 DEF TasksTyped
  <2>2. CutInv' BY <1>0, <1>7 DEF Tasks!ToggleAI, Tasks!Spend, Tasks!memory,
      Tasks!past, CutInv, TasksTyped, WorkTyped, CleanTyped, ResetTyped, CleanupInv,
      Tasks!WorkItem
  <2>3. CleanupInv' /\ RecordsInv'
    BY <1>0, <1>7 DEF Tasks!ToggleAI, Tasks!Spend,
      Tasks!memory, Tasks!past, CleanupInv, RecordsInv, TasksTyped, DupTyped, RecTyped, CleanTyped, Tasks!Tasks
  <2>. QED BY <2>1, <2>2, <2>3 DEF TasksInv
<1>8. ASSUME Tasks!ScanStarts PROVE TasksInv'
  <2>1. TasksTyped'
    BY <1>0, <1>8, Kinds DEF Tasks!ScanStarts, Tasks!Spend, Tasks!past, WorkTyped, RecTyped,
        AITyped, DupTyped, CleanTyped, CheckTyped, ResetTyped, RestTyped, Tasks!WorkItem, Tasks!Tasks,
        TasksTyped
  <2>2. CutInv' BY <1>0, <1>8 DEF Tasks!ScanStarts, Tasks!Spend, Tasks!past, CutInv,
      TasksTyped, WorkTyped, CleanTyped, ResetTyped, CleanupInv, Tasks!WorkItem
  <2>3. CleanupInv' /\ RecordsInv'
    BY <1>0, <1>8 DEF Tasks!ScanStarts,
      Tasks!Spend, Tasks!past, CleanupInv, RecordsInv, TasksTyped, DupTyped, RecTyped, CleanTyped, Tasks!Tasks
  <2>. QED BY <2>1, <2>2, <2>3 DEF TasksInv
<1>9. ASSUME Tasks!ScanEnds PROVE TasksInv'
  <2>1. TasksTyped'
    <3>1. WorkTyped' BY <1>0, <1>9 DEF Tasks!ScanEnds, WorkTyped, Tasks!WorkItem,
        TasksTyped
    <3>2. RestTyped' BY <1>0, <1>9 DEF Tasks!ScanEnds, RestTyped, TasksTyped
    <3>3. RecTyped' /\ AITyped' /\ DupTyped' /\ CleanTyped' /\ CheckTyped' /\ ResetTyped'
      BY <1>0, <1>9 DEF Tasks!ScanEnds, RecTyped, AITyped, DupTyped, CleanTyped, CheckTyped, ResetTyped,
          TasksTyped
    <3>. QED BY <3>1, <3>2, <3>3 DEF TasksTyped
  <2>2. CutInv' BY <1>0, <1>9 DEF Tasks!ScanEnds, CutInv, TasksTyped, WorkTyped,
      CleanTyped, ResetTyped, CleanupInv, Tasks!WorkItem
  <2>3. CleanupInv' /\ RecordsInv'
    BY <1>0, <1>9 DEF Tasks!ScanEnds, CleanupInv,
      RecordsInv, TasksTyped, DupTyped, RecTyped, CleanTyped, Tasks!Tasks
  <2>. QED BY <2>1, <2>2, <2>3 DEF TasksInv
<1>. QED BY <1>1, <1>2, <1>3, <1>4, <1>5, <1>6, <1>7, <1>8, <1>9 DEF Tasks!WorkNext

-----------------------------------------------------------------------------
(* The duplicate scan                                                      *)

LEMMA DuplicateSteps == TasksInv /\ Tasks!DuplicateNext => TasksInv'
<1>. SUFFICES ASSUME TasksInv, Tasks!DuplicateNext PROVE TasksInv' OBVIOUS
<1>0. TasksTyped /\ CutInv /\ CleanupInv /\ RecordsInv BY DEF TasksInv
<1>1. ASSUME Tasks!AskDuplicates PROVE TasksInv'
  <2>1. TasksTyped'
    <3>1. DupTyped' BY <1>0, <1>1 DEF Tasks!AskDuplicates, Tasks!Spend, Tasks!Flag,
        Tasks!past, DupTyped, TasksTyped
    <3>2. RestTyped' BY <1>0, <1>1, Kinds DEF Tasks!AskDuplicates, Tasks!Spend, Tasks!Flag,
        Tasks!past, RestTyped, TasksTyped
    <3>3. WorkTyped' /\ RecTyped' /\ AITyped' /\ CleanTyped' /\ CheckTyped' /\ ResetTyped'
      BY <1>0, <1>1 DEF Tasks!AskDuplicates, Tasks!past, WorkTyped, RecTyped, AITyped, CleanTyped,
          CheckTyped, ResetTyped, TasksTyped
    <3>. QED BY <3>1, <3>2, <3>3 DEF TasksTyped
  <2>2. CutInv' BY <1>0, <1>1 DEF Tasks!AskDuplicates, Tasks!Spend, Tasks!Flag,
      Tasks!past, CutInv, TasksTyped, WorkTyped, CleanTyped, ResetTyped, CleanupInv,
      Tasks!WorkItem
  <2>3. CleanupInv' /\ RecordsInv'
    BY <1>0, <1>1 DEF Tasks!AskDuplicates,
      Tasks!Spend, Tasks!Flag, Tasks!past, CleanupInv, RecordsInv, TasksTyped, DupTyped, RecTyped,
      CleanTyped, Tasks!Tasks
  <2>. QED BY <2>1, <2>2, <2>3 DEF TasksInv
<1>2. ASSUME Tasks!TryDuplicates PROVE TasksInv'
  <2>1. TasksTyped'
    <3>1. DupTyped' BY <1>0, <1>2 DEF Tasks!TryDuplicates, Tasks!MayTry, Tasks!Busy,
        Tasks!Flag, Tasks!past, DupTyped, TasksTyped
    <3>2. RestTyped' BY <1>0, <1>2 DEF Tasks!TryDuplicates, Tasks!MayTry, Tasks!Busy,
        Tasks!Flag, Tasks!past, RestTyped, TasksTyped
    <3>3. WorkTyped' /\ RecTyped' /\ AITyped' /\ CleanTyped' /\ CheckTyped' /\ ResetTyped'
      BY <1>0, <1>2 DEF Tasks!TryDuplicates, Tasks!past, WorkTyped, RecTyped, AITyped, CleanTyped,
          CheckTyped, ResetTyped, TasksTyped
    <3>. QED BY <3>1, <3>2, <3>3 DEF TasksTyped
  <2>2. CutInv' BY <1>0, <1>2 DEF Tasks!TryDuplicates, Tasks!MayTry, Tasks!Busy,
      Tasks!Flag, Tasks!past, CutInv, TasksTyped, WorkTyped, CleanTyped, ResetTyped, CleanupInv, Tasks!WorkItem
  <2>3. CleanupInv' /\ RecordsInv'
    BY <1>0, <1>2 DEF Tasks!TryDuplicates,
      Tasks!MayTry, Tasks!Busy, Tasks!Flag, Tasks!past, CleanupInv, RecordsInv, TasksTyped, DupTyped,
      RecTyped, CleanTyped, Tasks!Tasks
  <2>. QED BY <2>1, <2>2, <2>3 DEF TasksInv
<1>3. ASSUME Tasks!BeginDuplicates PROVE TasksInv'
  <2>1. TasksTyped'
    BY <1>0, <1>3 DEF Tasks!BeginDuplicates, Tasks!past, WorkTyped, RecTyped,
        AITyped, DupTyped, CleanTyped, CheckTyped, ResetTyped, RestTyped, Tasks!WorkItem, Tasks!Tasks,
        TasksTyped
  <2>2. CutInv' BY <1>0, <1>3 DEF Tasks!BeginDuplicates, Tasks!past, CutInv,
      TasksTyped, WorkTyped, CleanTyped, ResetTyped, CleanupInv, Tasks!WorkItem
  <2>3. CleanupInv' /\ RecordsInv'
    BY <1>0, <1>3 DEF Tasks!BeginDuplicates,
      Tasks!past, CleanupInv, RecordsInv, TasksTyped, DupTyped, RecTyped, CleanTyped,
      Tasks!Tasks
  <2>. QED BY <2>1, <2>2, <2>3 DEF TasksInv
<1>4. ASSUME Tasks!CountTry PROVE TasksInv'
  <2>1. TasksTyped'
    BY <1>0, <1>4 DEF Tasks!CountTry, Tasks!past, WorkTyped, RecTyped, AITyped,
        DupTyped, CleanTyped, CheckTyped, ResetTyped, RestTyped, Tasks!WorkItem, Tasks!Tasks, TasksTyped
  <2>2. CutInv' BY <1>0, <1>4 DEF Tasks!CountTry, Tasks!past, CutInv, TasksTyped,
      WorkTyped, CleanTyped, ResetTyped, CleanupInv, Tasks!WorkItem
  <2>3. CleanupInv' /\ RecordsInv'
    BY <1>0, <1>4 DEF Tasks!CountTry, Tasks!past,
      CleanupInv, RecordsInv, TasksTyped, DupTyped, RecTyped, CleanTyped, Tasks!Tasks
  <2>. QED BY <2>1, <2>2, <2>3 DEF TasksInv
<1>5. ASSUME Tasks!HashOne PROVE TasksInv'
  <2>1. TasksTyped'
    <3>1. DupTyped' BY <1>0, <1>5 DEF Tasks!HashOne, Tasks!Spend, Tasks!past,
        DupTyped, TasksTyped
    <3>2. RestTyped' BY <1>0, <1>5, Kinds DEF Tasks!HashOne, Tasks!Spend, Tasks!past,
        RestTyped, TasksTyped
    <3>3. WorkTyped' /\ RecTyped' /\ AITyped' /\ CleanTyped' /\ CheckTyped' /\ ResetTyped'
      BY <1>0, <1>5 DEF Tasks!HashOne, Tasks!past, WorkTyped, RecTyped, AITyped, CleanTyped, CheckTyped,
          ResetTyped, TasksTyped
    <3>. QED BY <3>1, <3>2, <3>3 DEF TasksTyped
  <2>2. CutInv' BY <1>0, <1>5 DEF Tasks!HashOne, Tasks!Spend, Tasks!past, CutInv,
      TasksTyped, WorkTyped, CleanTyped, ResetTyped, CleanupInv, Tasks!WorkItem
  <2>3. CleanupInv' /\ RecordsInv'
    BY <1>0, <1>5 DEF Tasks!HashOne, Tasks!Spend,
      Tasks!past, CleanupInv, RecordsInv, TasksTyped, DupTyped, RecTyped, CleanTyped,
      Tasks!Tasks
  <2>. QED BY <2>1, <2>2, <2>3 DEF TasksInv
<1>6. ASSUME Tasks!StopDuplicates PROVE TasksInv'
  <2>1. TasksTyped'
    <3>1. DupTyped' BY <1>0, <1>6 DEF Tasks!StopDuplicates, Tasks!Spend, Tasks!past,
        DupTyped, TasksTyped
    <3>2. RestTyped' BY <1>0, <1>6, Kinds DEF Tasks!StopDuplicates, Tasks!Spend, Tasks!past,
        RestTyped, TasksTyped
    <3>3. WorkTyped' /\ RecTyped' /\ AITyped' /\ CleanTyped' /\ CheckTyped' /\ ResetTyped'
      BY <1>0, <1>6 DEF Tasks!StopDuplicates, Tasks!past, WorkTyped, RecTyped, AITyped, CleanTyped,
          CheckTyped, ResetTyped, TasksTyped
    <3>. QED BY <3>1, <3>2, <3>3 DEF TasksTyped
  <2>2. CutInv' BY <1>0, <1>6 DEF Tasks!StopDuplicates, Tasks!Spend, Tasks!past,
      CutInv, TasksTyped, WorkTyped, CleanTyped, ResetTyped, CleanupInv,
      Tasks!WorkItem
  <2>3. CleanupInv' /\ RecordsInv'
    BY <1>0, <1>6 DEF Tasks!StopDuplicates,
      Tasks!Spend, Tasks!past, CleanupInv, RecordsInv, TasksTyped, DupTyped, RecTyped, CleanTyped, Tasks!Tasks
  <2>. QED BY <2>1, <2>2, <2>3 DEF TasksInv
<1>7. ASSUME Tasks!RecordDuplicates PROVE TasksInv'
  <2>1. TasksTyped'
    BY <1>0, <1>7, Kinds DEF Tasks!RecordDuplicates, Tasks!Spend, Tasks!past, WorkTyped,
        RecTyped, AITyped, DupTyped, CleanTyped, CheckTyped, ResetTyped, RestTyped, Tasks!WorkItem,
        Tasks!Tasks, TasksTyped
  <2>2. CutInv' BY <1>0, <1>7 DEF Tasks!RecordDuplicates, Tasks!Spend, Tasks!past,
      CutInv, TasksTyped, WorkTyped, CleanTyped, ResetTyped, CleanupInv,
      Tasks!WorkItem
  <2>3. CleanupInv' /\ RecordsInv'
    BY <1>0, <1>7 DEF Tasks!RecordDuplicates,
      Tasks!Spend, Tasks!past, CleanupInv, RecordsInv, TasksTyped, DupTyped, RecTyped, CleanTyped, Tasks!Tasks
  <2>. QED BY <2>1, <2>2, <2>3 DEF TasksInv
<1>8. ASSUME Tasks!EndDuplicates PROVE TasksInv'
  <2>1. TasksTyped'
    <3>1. DupTyped' BY <1>0, <1>8 DEF Tasks!EndDuplicates, DupTyped, TasksTyped
    <3>2. WorkTyped' /\ RecTyped' /\ AITyped' /\ CleanTyped' /\ CheckTyped' /\ ResetTyped' /\ RestTyped'
      BY <1>0, <1>8 DEF Tasks!EndDuplicates, WorkTyped, RecTyped, AITyped, CleanTyped, CheckTyped,
          ResetTyped, RestTyped, TasksTyped
    <3>. QED BY <3>1, <3>2 DEF TasksTyped
  <2>2. CutInv' BY <1>0, <1>8 DEF Tasks!EndDuplicates, CutInv, TasksTyped, WorkTyped,
      CleanTyped, ResetTyped, CleanupInv, Tasks!WorkItem
  <2>3. CleanupInv' /\ RecordsInv'
    BY <1>0, <1>8 DEF Tasks!EndDuplicates,
      CleanupInv, RecordsInv, TasksTyped, DupTyped, RecTyped, CleanTyped, Tasks!Tasks
  <2>. QED BY <2>1, <2>2, <2>3 DEF TasksInv
<1>. QED BY <1>1, <1>2, <1>3, <1>4, <1>5, <1>6, <1>7, <1>8 DEF Tasks!DuplicateNext

-----------------------------------------------------------------------------
(* The cleanup, and the one of all assets                                  *)

LEMMA CleanupSteps == TasksInv /\ (Tasks!CleanupNext \/ Tasks!StartCleanup("all") \/ Tasks!ClearAllAssets) => TasksInv'
<1>. SUFFICES ASSUME TasksInv, (Tasks!CleanupNext \/ Tasks!StartCleanup("all") \/ Tasks!ClearAllAssets) PROVE TasksInv' OBVIOUS
<1>0. TasksTyped /\ CutInv /\ CleanupInv /\ RecordsInv BY DEF TasksInv
<1>1. ASSUME NEW kind \in {"orphan", "scheduled", "all"}, Tasks!StartCleanup(kind) PROVE TasksInv'
  <2>1. TasksTyped'
    <3>1. CleanTyped' BY <1>0, <1>1 DEF Tasks!StartCleanup, Tasks!Spend,
        Tasks!NoCleanup, Tasks!past, CleanTyped, TasksTyped
    <3>2. RestTyped' BY <1>0, <1>1, Kinds DEF Tasks!StartCleanup, Tasks!Spend,
        Tasks!NoCleanup, Tasks!past, RestTyped, TasksTyped
    <3>3. WorkTyped' /\ RecTyped' /\ AITyped' /\ DupTyped' /\ CheckTyped' /\ ResetTyped'
      BY <1>0, <1>1 DEF Tasks!StartCleanup, Tasks!past, WorkTyped, RecTyped, AITyped, DupTyped, CheckTyped,
          ResetTyped, TasksTyped
    <3>. QED BY <3>1, <3>2, <3>3 DEF TasksTyped
  <2>2. CutInv' BY <1>0, <1>1 DEF Tasks!StartCleanup, Tasks!Spend, Tasks!NoCleanup,
      Tasks!past, CutInv, TasksTyped, WorkTyped, CleanTyped, ResetTyped, CleanupInv,
      Tasks!WorkItem
  <2>3. CleanupInv' /\ RecordsInv'
    BY <1>0, <1>1 DEF Tasks!StartCleanup,
      Tasks!Spend, Tasks!NoCleanup, Tasks!past, CleanupInv, RecordsInv, TasksTyped, DupTyped, RecTyped,
      CleanTyped, Tasks!Tasks
  <2>. QED BY <2>1, <2>2, <2>3 DEF TasksInv
<1>2. ASSUME Tasks!BeginCleanup PROVE TasksInv'
  <2>1. TasksTyped'
    BY <1>0, <1>2 DEF Tasks!BeginCleanup, Tasks!past, WorkTyped, RecTyped, AITyped,
        DupTyped, CleanTyped, CheckTyped, ResetTyped, RestTyped, Tasks!WorkItem, Tasks!Tasks, TasksTyped
  <2>2. CutInv' BY <1>0, <1>2 DEF Tasks!BeginCleanup, Tasks!past, CutInv, TasksTyped,
      WorkTyped, CleanTyped, ResetTyped, CleanupInv, Tasks!WorkItem
  <2>3. CleanupInv' /\ RecordsInv'
    BY <1>0, <1>2 DEF Tasks!BeginCleanup,
      Tasks!past, CleanupInv, RecordsInv, TasksTyped, DupTyped, RecTyped, CleanTyped,
      Tasks!Tasks
  <2>. QED BY <2>1, <2>2, <2>3 DEF TasksInv
<1>3. ASSUME Tasks!StopCleanup PROVE TasksInv'
  <2>1. TasksTyped'
    <3>1. CleanTyped' BY <1>0, <1>3 DEF Tasks!StopCleanup, Tasks!Spend, Tasks!past,
        CleanTyped, TasksTyped
    <3>2. RestTyped' BY <1>0, <1>3, Kinds DEF Tasks!StopCleanup, Tasks!Spend, Tasks!past,
        RestTyped, TasksTyped
    <3>3. WorkTyped' /\ RecTyped' /\ AITyped' /\ DupTyped' /\ CheckTyped' /\ ResetTyped'
      BY <1>0, <1>3 DEF Tasks!StopCleanup, Tasks!past, WorkTyped, RecTyped, AITyped, DupTyped, CheckTyped,
          ResetTyped, TasksTyped
    <3>. QED BY <3>1, <3>2, <3>3 DEF TasksTyped
  <2>2. CutInv' BY <1>0, <1>3 DEF Tasks!StopCleanup, Tasks!Spend, Tasks!past, CutInv,
      TasksTyped, WorkTyped, CleanTyped, ResetTyped, CleanupInv, Tasks!WorkItem
  <2>3. CleanupInv' /\ RecordsInv'
    BY <1>0, <1>3 DEF Tasks!StopCleanup,
      Tasks!Spend, Tasks!past, CleanupInv, RecordsInv, TasksTyped, DupTyped, RecTyped, CleanTyped, Tasks!Tasks
  <2>. QED BY <2>1, <2>2, <2>3 DEF TasksInv
<1>4. ASSUME Tasks!RecordCleanup PROVE TasksInv'
  <2>1. TasksTyped'
    BY <1>0, <1>4, Kinds DEF Tasks!RecordCleanup, Tasks!Spend, Tasks!past, WorkTyped,
        RecTyped, AITyped, DupTyped, CleanTyped, CheckTyped, ResetTyped, RestTyped, Tasks!WorkItem,
        Tasks!Tasks, TasksTyped
  <2>2. CutInv' BY <1>0, <1>4 DEF Tasks!RecordCleanup, Tasks!Spend, Tasks!past,
      CutInv, TasksTyped, WorkTyped, CleanTyped, ResetTyped, CleanupInv,
      Tasks!WorkItem
  <2>3. CleanupInv' /\ RecordsInv'
    BY <1>0, <1>4 DEF Tasks!RecordCleanup,
      Tasks!Spend, Tasks!past, CleanupInv, RecordsInv, TasksTyped, DupTyped, RecTyped, CleanTyped, Tasks!Tasks
  <2>. QED BY <2>1, <2>2, <2>3 DEF TasksInv
<1>5. ASSUME Tasks!ClearAllAssets PROVE TasksInv'
  <2>1. TasksTyped'
    BY <1>0, <1>5 DEF Tasks!ClearAllAssets, Tasks!past, WorkTyped, RecTyped, AITyped,
        DupTyped, CleanTyped, CheckTyped, ResetTyped, RestTyped, Tasks!WorkItem, Tasks!Tasks, TasksTyped
  <2>2. CutInv' BY <1>0, <1>5 DEF Tasks!ClearAllAssets, Tasks!past, CutInv,
      TasksTyped, WorkTyped, CleanTyped, ResetTyped, CleanupInv, Tasks!WorkItem
  <2>3. CleanupInv' /\ RecordsInv'
    BY <1>0, <1>5 DEF Tasks!ClearAllAssets,
      Tasks!past, CleanupInv, RecordsInv, TasksTyped, DupTyped, RecTyped, CleanTyped,
      Tasks!Tasks
  <2>. QED BY <2>1, <2>2, <2>3 DEF TasksInv
<1>6. ASSUME Tasks!EndCleanup PROVE TasksInv'
  <2>1. TasksTyped'
    BY <1>0, <1>6 DEF Tasks!EndCleanup, Tasks!NoCleanup, WorkTyped, RecTyped,
        AITyped, DupTyped, CleanTyped, CheckTyped, ResetTyped, RestTyped, Tasks!WorkItem, Tasks!Tasks,
        TasksTyped
  <2>2. CutInv' BY <1>0, <1>6 DEF Tasks!EndCleanup, Tasks!NoCleanup, CutInv,
      TasksTyped, WorkTyped, CleanTyped, ResetTyped, CleanupInv, Tasks!WorkItem
  <2>3. CleanupInv' /\ RecordsInv'
    BY <1>0, <1>6 DEF Tasks!EndCleanup,
      Tasks!NoCleanup, CleanupInv, RecordsInv, TasksTyped, DupTyped, RecTyped, CleanTyped, Tasks!Tasks
  <2>. QED BY <2>1, <2>2, <2>3 DEF TasksInv
<1>. QED BY <1>1, <1>2, <1>3, <1>4, <1>5, <1>6 DEF Tasks!CleanupNext

-----------------------------------------------------------------------------
(* The storage and its check                                               *)

LEMMA CheckSteps == TasksInv /\ (Tasks!CheckNext \/ Tasks!StorageChanges) => TasksInv'
<1>. SUFFICES ASSUME TasksInv, (Tasks!CheckNext \/ Tasks!StorageChanges) PROVE TasksInv' OBVIOUS
<1>0. TasksTyped /\ CutInv /\ CleanupInv /\ RecordsInv BY DEF TasksInv
<1>1. ASSUME NEW c \in {"request", "clock"}, Tasks!BeginCheck(c) PROVE TasksInv'
  <2>1. TasksTyped'
    <3>1. RecTyped' BY <1>0, <1>1 DEF Tasks!BeginCheck, Tasks!Spend, Tasks!At,
        Tasks!NoCheck, Tasks!Record, Tasks!past, RecTyped, Tasks!Tasks, TasksTyped
    <3>2. CheckTyped' BY <1>0, <1>1 DEF Tasks!BeginCheck, Tasks!Spend, Tasks!At,
        Tasks!NoCheck, Tasks!Record, Tasks!past, CheckTyped, RecTyped, Tasks!Tasks, TasksTyped
    <3>3. RestTyped' BY <1>0, <1>1, Kinds DEF Tasks!BeginCheck, Tasks!Spend, Tasks!At,
        Tasks!NoCheck, Tasks!Record, Tasks!past, RestTyped, TasksTyped
    <3>4. WorkTyped' /\ AITyped' /\ DupTyped' /\ CleanTyped' /\ ResetTyped'
      BY <1>0, <1>1 DEF Tasks!BeginCheck, Tasks!past, WorkTyped, AITyped, DupTyped, CleanTyped, ResetTyped,
          TasksTyped
    <3>. QED BY <3>1, <3>2, <3>3, <3>4 DEF TasksTyped
  <2>2. CutInv' BY <1>0, <1>1 DEF Tasks!BeginCheck, Tasks!Spend, Tasks!At,
      Tasks!NoCheck, Tasks!Record, Tasks!past, CutInv, TasksTyped, WorkTyped, CleanTyped, ResetTyped,
      CleanupInv, Tasks!WorkItem
  <2>3. CleanupInv' /\ RecordsInv'
    BY <1>0, <1>1 DEF Tasks!BeginCheck,
      Tasks!Spend, Tasks!At, Tasks!NoCheck, Tasks!Record, Tasks!past, CleanupInv, RecordsInv, TasksTyped,
      DupTyped, RecTyped, CleanTyped, Tasks!Tasks
  <2>. QED BY <2>1, <2>2, <2>3 DEF TasksInv
<1>2. ASSUME NEW c \in {"request", "clock"}, Tasks!ProbeStorage(c) PROVE TasksInv'
  <2>1. TasksTyped'
    <3>1. CheckTyped' BY <1>0, <1>2 DEF Tasks!ProbeStorage, Tasks!At, Tasks!past,
        CheckTyped, TasksTyped
    <3>2. WorkTyped' /\ RecTyped' /\ AITyped' /\ DupTyped' /\ CleanTyped' /\ ResetTyped' /\ RestTyped'
      BY <1>0, <1>2 DEF Tasks!ProbeStorage, Tasks!past, WorkTyped, RecTyped, AITyped, DupTyped, CleanTyped,
          ResetTyped, RestTyped, TasksTyped
    <3>. QED BY <3>1, <3>2 DEF TasksTyped
  <2>2. CutInv' BY <1>0, <1>2 DEF Tasks!ProbeStorage, Tasks!At, Tasks!past, CutInv,
      TasksTyped, WorkTyped, CleanTyped, ResetTyped, CleanupInv, Tasks!WorkItem
  <2>3. CleanupInv' /\ RecordsInv'
    BY <1>0, <1>2 DEF Tasks!ProbeStorage,
      Tasks!At, Tasks!past, CleanupInv, RecordsInv, TasksTyped, DupTyped, RecTyped, CleanTyped, Tasks!Tasks
  <2>. QED BY <2>1, <2>2, <2>3 DEF TasksInv
<1>3. ASSUME NEW c \in {"request", "clock"}, Tasks!ActOnCheck(c) PROVE TasksInv'
  <2>1. TasksTyped'
    <3>1. WorkTyped' BY <1>0, <1>3, WorkAfterCheck DEF TasksTyped
    <3>2. RestTyped' BY <1>0, <1>3 DEF Tasks!ActOnCheck, Tasks!At, Tasks!Stop,
        Tasks!Cancelled, Tasks!Stopped, Tasks!Halted, Tasks!Cleared, Tasks!MediaKind, Tasks!Requeued,
        Tasks!AIReturns, Tasks!CanBeRead, Tasks!Retried, Tasks!past, RestTyped, TasksTyped
    <3>3. CheckTyped' BY <1>0, <1>3 DEF Tasks!ActOnCheck, Tasks!At, Tasks!Stop,
        Tasks!Cancelled, Tasks!Stopped, Tasks!Halted, Tasks!Cleared, Tasks!MediaKind, Tasks!Requeued,
        Tasks!AIReturns, Tasks!CanBeRead, Tasks!Retried, Tasks!past, CheckTyped, TasksTyped
    <3>4. RecTyped' /\ AITyped' /\ DupTyped' /\ CleanTyped' /\ ResetTyped'
      BY <1>0, <1>3 DEF Tasks!ActOnCheck, Tasks!past, RecTyped, AITyped, DupTyped, CleanTyped, ResetTyped,
          TasksTyped
    <3>. QED BY <3>1, <3>2, <3>3, <3>4 DEF TasksTyped
  <2>2. CutInv'
    <3>1. \A k \in Kind : /\ Tasks!Stopped(k).active # "no" <=> work[k].active # "no"
                          /\ Tasks!Cancelled(work[k]).active # "no" <=> work[k].active # "no"
      BY <1>0 DEF TasksTyped, WorkTyped, Tasks!WorkItem, Tasks!Stopped, Tasks!Halted, Tasks!Cancelled,
          Tasks!Cleared
    <3>2. \A k \in Kind : Tasks!AIReturns(work)[k].active = work[k].active
      BY <1>0 DEF TasksTyped, WorkTyped, Tasks!WorkItem, Tasks!AIReturns
    <3>3. \A k \in Kind : work'[k].active # "no" <=> work[k].active # "no"
      BY <1>3, <3>1, <3>2 DEF Tasks!ActOnCheck
    <3>4. scan # "idle" => scan' # "idle" BY <1>3 DEF Tasks!ActOnCheck, Tasks!Stop
    <3>. QED BY <1>0, <1>3, <3>3, <3>4 DEF Tasks!ActOnCheck, Tasks!past, CutInv
  <2>3. CleanupInv' /\ RecordsInv'
    BY <1>0, <1>3 DEF Tasks!ActOnCheck, Tasks!At,
      Tasks!Stop, Tasks!Cancelled, Tasks!Stopped, Tasks!Halted, Tasks!Cleared, Tasks!MediaKind,
      Tasks!Requeued, Tasks!AIReturns, Tasks!CanBeRead, Tasks!Retried, Tasks!past, CleanupInv, RecordsInv,
      TasksTyped, DupTyped, RecTyped, CleanTyped, Tasks!Tasks
  <2>. QED BY <2>1, <2>2, <2>3 DEF TasksInv
<1>4. ASSUME NEW c \in {"request", "clock"}, Tasks!FinishCheck(c) PROVE TasksInv'
  <2>1. TasksTyped'
    BY <1>0, <1>4 DEF Tasks!FinishCheck, Tasks!At, Tasks!NoCheck, Tasks!Record,
        Tasks!past, WorkTyped, RecTyped, AITyped, DupTyped, CleanTyped, CheckTyped, ResetTyped, RestTyped,
        Tasks!WorkItem, Tasks!Tasks, TasksTyped
  <2>2. CutInv' BY <1>0, <1>4 DEF Tasks!FinishCheck, Tasks!At, Tasks!NoCheck,
      Tasks!Record, Tasks!past, CutInv, TasksTyped, WorkTyped, CleanTyped, ResetTyped, CleanupInv, Tasks!WorkItem
  <2>3. CleanupInv' /\ RecordsInv'
    BY <1>0, <1>4 DEF Tasks!FinishCheck, Tasks!At,
      Tasks!NoCheck, Tasks!Record, Tasks!past, CleanupInv, RecordsInv, TasksTyped, DupTyped, RecTyped,
      CleanTyped, Tasks!Tasks
  <2>. QED BY <2>1, <2>2, <2>3 DEF TasksInv
<1>5. ASSUME Tasks!ClientLeaves PROVE TasksInv'
  <2>1. TasksTyped'
    <3>1. CheckTyped' BY <1>0, <1>5, CheckAfterLeave DEF TasksTyped
    <3>2. RestTyped' BY <1>0, <1>5, Kinds DEF Tasks!ClientLeaves, Tasks!Spend, Tasks!At,
        Tasks!past, RestTyped, TasksTyped
    <3>3. WorkTyped' /\ RecTyped' /\ AITyped' /\ DupTyped' /\ CleanTyped' /\ ResetTyped'
      BY <1>0, <1>5 DEF Tasks!ClientLeaves, Tasks!past, WorkTyped, RecTyped, AITyped, DupTyped, CleanTyped,
          ResetTyped, TasksTyped
    <3>. QED BY <3>1, <3>2, <3>3 DEF TasksTyped
  <2>2. CutInv' BY <1>0, <1>5 DEF Tasks!ClientLeaves, Tasks!Spend, Tasks!At,
      Tasks!past, CutInv, TasksTyped, WorkTyped, CleanTyped, ResetTyped, CleanupInv,
      Tasks!WorkItem
  <2>3. CleanupInv' /\ RecordsInv'
    BY <1>0, <1>5 DEF Tasks!ClientLeaves,
      Tasks!Spend, Tasks!At, Tasks!past, CleanupInv, RecordsInv, TasksTyped, DupTyped, RecTyped, CleanTyped, Tasks!Tasks
  <2>. QED BY <2>1, <2>2, <2>3 DEF TasksInv
<1>6. ASSUME Tasks!RetryStorage PROVE TasksInv'
  <2>1. TasksTyped'
    BY <1>0, <1>6 DEF Tasks!RetryStorage, Tasks!At, Tasks!past, WorkTyped, RecTyped,
        AITyped, DupTyped, CleanTyped, CheckTyped, ResetTyped, RestTyped, Tasks!WorkItem, Tasks!Tasks,
        TasksTyped
  <2>2. CutInv' BY <1>0, <1>6 DEF Tasks!RetryStorage, Tasks!At, Tasks!past, CutInv,
      TasksTyped, WorkTyped, CleanTyped, ResetTyped, CleanupInv, Tasks!WorkItem
  <2>3. CleanupInv' /\ RecordsInv'
    BY <1>0, <1>6 DEF Tasks!RetryStorage,
      Tasks!At, Tasks!past, CleanupInv, RecordsInv, TasksTyped, DupTyped, RecTyped, CleanTyped, Tasks!Tasks
  <2>. QED BY <2>1, <2>2, <2>3 DEF TasksInv
<1>7. ASSUME Tasks!StorageRecovers PROVE TasksInv'
  <2>1. TasksTyped'
    BY <1>0, <1>7, Kinds DEF Tasks!StorageRecovers, Tasks!At, Tasks!NoCheck,
        Tasks!AIReturns, Tasks!CanBeRead, Tasks!Retried, Tasks!Record, Tasks!past, WorkTyped, RecTyped,
        AITyped, DupTyped, CleanTyped, CheckTyped, ResetTyped, RestTyped, Tasks!WorkItem, Tasks!Tasks,
        TasksTyped
  <2>2. CutInv' BY <1>0, <1>7 DEF Tasks!StorageRecovers, Tasks!At, Tasks!NoCheck,
      Tasks!AIReturns, Tasks!CanBeRead, Tasks!Retried, Tasks!Record, Tasks!past, CutInv, TasksTyped,
      WorkTyped, CleanTyped, ResetTyped, CleanupInv, Tasks!WorkItem
  <2>3. CleanupInv' /\ RecordsInv'
    BY <1>0, <1>7 DEF Tasks!StorageRecovers,
      Tasks!At, Tasks!NoCheck, Tasks!AIReturns, Tasks!CanBeRead, Tasks!Retried, Tasks!Record, Tasks!past,
      CleanupInv, RecordsInv, TasksTyped, DupTyped, RecTyped, CleanTyped, Tasks!Tasks
  <2>. QED BY <2>1, <2>2, <2>3 DEF TasksInv
<1>8. ASSUME Tasks!StorageChanges PROVE TasksInv'
  <2>1. TasksTyped'
    BY <1>0, <1>8, Kinds DEF Tasks!StorageChanges, Tasks!Spend, Tasks!memory, Tasks!past,
        WorkTyped, RecTyped, AITyped, DupTyped, CleanTyped, CheckTyped, ResetTyped, RestTyped,
        Tasks!WorkItem, Tasks!Tasks, TasksTyped
  <2>2. CutInv' BY <1>0, <1>8 DEF Tasks!StorageChanges, Tasks!Spend, Tasks!memory,
      Tasks!past, CutInv, TasksTyped, WorkTyped, CleanTyped, ResetTyped, CleanupInv,
      Tasks!WorkItem
  <2>3. CleanupInv' /\ RecordsInv'
    BY <1>0, <1>8 DEF Tasks!StorageChanges,
      Tasks!Spend, Tasks!memory, Tasks!past, CleanupInv, RecordsInv, TasksTyped, DupTyped, RecTyped,
      CleanTyped, Tasks!Tasks
  <2>. QED BY <2>1, <2>2, <2>3 DEF TasksInv
<1>. QED BY <1>1, <1>2, <1>3, <1>4, <1>5, <1>6, <1>7, <1>8 DEF Tasks!CheckNext

-----------------------------------------------------------------------------
(* The reset and a restart                                                 *)

LEMMA ResetSteps == TasksInv /\ (Tasks!ResetNext \/ Tasks!Truncate \/ Tasks!Restart) => TasksInv'
<1>. SUFFICES ASSUME TasksInv, (Tasks!ResetNext \/ Tasks!Truncate \/ Tasks!Restart) PROVE TasksInv' OBVIOUS
<1>0. TasksTyped /\ CutInv /\ CleanupInv /\ RecordsInv BY DEF TasksInv
<1>1. ASSUME Tasks!BeginReset PROVE TasksInv'
  <2>1. TasksTyped'
    BY <1>0, <1>1, Kinds DEF Tasks!BeginReset, Tasks!Spend, Tasks!past, WorkTyped, RecTyped,
        AITyped, DupTyped, CleanTyped, CheckTyped, ResetTyped, RestTyped, Tasks!WorkItem, Tasks!Tasks,
        TasksTyped
  <2>2. CutInv' BY <1>0, <1>1 DEF Tasks!BeginReset, Tasks!Spend, Tasks!past, CutInv,
      TasksTyped, WorkTyped, CleanTyped, ResetTyped, CleanupInv, Tasks!WorkItem
  <2>3. CleanupInv' /\ RecordsInv'
    BY <1>0, <1>1 DEF Tasks!BeginReset,
      Tasks!Spend, Tasks!past, CleanupInv, RecordsInv, TasksTyped, DupTyped, RecTyped, CleanTyped, Tasks!Tasks
  <2>. QED BY <2>1, <2>2, <2>3 DEF TasksInv
<1>2. ASSUME Tasks!StopEverything PROVE TasksInv'
  <2>1. TasksTyped'
    <3>1. RestTyped' BY <1>0, <1>2, Kinds DEF Tasks!StopEverything, Tasks!Stop,
        Tasks!Resets, Tasks!Cleared, Tasks!AtWork, Tasks!Spend, RestTyped, TasksTyped
    <3>2. CleanTyped' BY <1>0, <1>2, CleanAfterHalt DEF TasksTyped
    <3>3. ResetTyped' BY <1>0, <1>2 DEF Tasks!StopEverything, Tasks!Stop,
        Tasks!Resets, Tasks!Cleared, Tasks!AtWork, Tasks!Spend, ResetTyped, TasksTyped
    <3>4. WorkTyped' BY <1>0, <1>2, WorkAfterHalt DEF TasksTyped
    <3>5. RecTyped' /\ AITyped' /\ DupTyped' /\ CheckTyped'
      BY <1>0, <1>2 DEF Tasks!StopEverything, RecTyped, AITyped, DupTyped, CheckTyped, TasksTyped
    <3>. QED BY <3>1, <3>2, <3>3, <3>4, <3>5 DEF TasksTyped
  <2>2. CutInv' BY <1>0, <1>2, Kinds DEF Tasks!StopEverything, Tasks!Stop, Tasks!Resets,
      Tasks!Cleared, Tasks!AtWork, Tasks!Spend, CutInv, TasksTyped, WorkTyped, CleanTyped, ResetTyped,
      CleanupInv, Tasks!WorkItem
  <2>3. CleanupInv' /\ RecordsInv'
    BY <1>0, <1>2 DEF Tasks!StopEverything,
      Tasks!Stop, Tasks!Resets, Tasks!Cleared, Tasks!AtWork, Tasks!Spend, CleanupInv, RecordsInv,
      TasksTyped, DupTyped, RecTyped, CleanTyped, Tasks!Tasks
  <2>. QED BY <2>1, <2>2, <2>3 DEF TasksInv
<1>3. ASSUME Tasks!WaitForQuiet PROVE TasksInv'
  <2>1. TasksTyped'
    BY <1>0, <1>3 DEF Tasks!WaitForQuiet, Tasks!Resets, Tasks!Quiet, Tasks!past,
        WorkTyped, RecTyped, AITyped, DupTyped, CleanTyped, CheckTyped, ResetTyped, RestTyped,
        Tasks!WorkItem, Tasks!Tasks, TasksTyped
  <2>2. CutInv' BY <1>0, <1>3, Kinds DEF Tasks!WaitForQuiet, Tasks!Resets, Tasks!Quiet,
      Tasks!past, CutInv, TasksTyped, WorkTyped, CleanTyped, ResetTyped, CleanupInv,
      Tasks!WorkItem
  <2>3. CleanupInv' /\ RecordsInv'
    BY <1>0, <1>3 DEF Tasks!WaitForQuiet,
      Tasks!Resets, Tasks!Quiet, Tasks!past, CleanupInv, RecordsInv, TasksTyped, DupTyped, RecTyped,
      CleanTyped, Tasks!Tasks
  <2>. QED BY <2>1, <2>2, <2>3 DEF TasksInv
<1>4. ASSUME Tasks!ClearAgain PROVE TasksInv'
  <2>1. TasksTyped'
    <3>1. WorkTyped' BY <1>0, <1>4 DEF Tasks!ClearAgain, Tasks!Resets, Tasks!Cleared,
        Tasks!past, WorkTyped, Tasks!WorkItem, TasksTyped
    <3>2. ResetTyped' BY <1>0, <1>4 DEF Tasks!ClearAgain, Tasks!Resets,
        Tasks!Cleared, Tasks!past, ResetTyped, TasksTyped
    <3>3. RecTyped' /\ AITyped' /\ DupTyped' /\ CleanTyped' /\ CheckTyped' /\ RestTyped'
      BY <1>0, <1>4 DEF Tasks!ClearAgain, Tasks!past, RecTyped, AITyped, DupTyped, CleanTyped, CheckTyped,
          RestTyped, TasksTyped
    <3>. QED BY <3>1, <3>2, <3>3 DEF TasksTyped
  <2>2. CutInv' BY <1>0, <1>4 DEF Tasks!ClearAgain, Tasks!Resets, Tasks!Cleared,
      Tasks!past, CutInv, TasksTyped, WorkTyped, CleanTyped, ResetTyped, CleanupInv,
      Tasks!WorkItem
  <2>3. CleanupInv' /\ RecordsInv'
    BY <1>0, <1>4 DEF Tasks!ClearAgain,
      Tasks!Resets, Tasks!Cleared, Tasks!past, CleanupInv, RecordsInv, TasksTyped, DupTyped, RecTyped,
      CleanTyped, Tasks!Tasks
  <2>. QED BY <2>1, <2>2, <2>3 DEF TasksInv
<1>5. ASSUME Tasks!TruncateFails PROVE TasksInv'
  <2>1. TasksTyped'
    BY <1>0, <1>5, Kinds DEF Tasks!TruncateFails, Tasks!Spend, Tasks!Resets, Tasks!past,
        WorkTyped, RecTyped, AITyped, DupTyped, CleanTyped, CheckTyped, ResetTyped, RestTyped,
        Tasks!WorkItem, Tasks!Tasks, TasksTyped
  <2>2. CutInv' BY <1>0, <1>5 DEF Tasks!TruncateFails, Tasks!Spend, Tasks!Resets,
      Tasks!past, CutInv, TasksTyped, WorkTyped, CleanTyped, ResetTyped, CleanupInv,
      Tasks!WorkItem
  <2>3. CleanupInv' /\ RecordsInv'
    BY <1>0, <1>5 DEF Tasks!TruncateFails,
      Tasks!Spend, Tasks!Resets, Tasks!past, CleanupInv, RecordsInv, TasksTyped, DupTyped, RecTyped,
      CleanTyped, Tasks!Tasks
  <2>. QED BY <2>1, <2>2, <2>3 DEF TasksInv
<1>6. ASSUME Tasks!EndReset PROVE TasksInv'
  <2>1. TasksTyped'
    <3>1. AITyped' BY <1>0, <1>6 DEF Tasks!EndReset, Tasks!NoReset, AITyped,
        TasksTyped
    <3>2. ResetTyped' BY <1>0, <1>6 DEF Tasks!EndReset, Tasks!NoReset, ResetTyped,
        TasksTyped
    <3>3. RestTyped' BY <1>0, <1>6 DEF Tasks!EndReset, Tasks!NoReset, RestTyped,
        TasksTyped
    <3>4. WorkTyped' /\ RecTyped' /\ DupTyped' /\ CleanTyped' /\ CheckTyped'
      BY <1>0, <1>6 DEF Tasks!EndReset, WorkTyped, RecTyped, DupTyped, CleanTyped, CheckTyped, TasksTyped
    <3>. QED BY <3>1, <3>2, <3>3, <3>4 DEF TasksTyped
  <2>2. CutInv' BY <1>0, <1>6 DEF Tasks!EndReset, Tasks!NoReset, CutInv, TasksTyped,
      WorkTyped, CleanTyped, ResetTyped, CleanupInv, Tasks!WorkItem
  <2>3. CleanupInv' /\ RecordsInv'
    BY <1>0, <1>6 DEF Tasks!EndReset,
      Tasks!NoReset, CleanupInv, RecordsInv, TasksTyped, DupTyped, RecTyped, CleanTyped, Tasks!Tasks
  <2>. QED BY <2>1, <2>2, <2>3 DEF TasksInv
<1>7. ASSUME Tasks!Truncate PROVE TasksInv'
  <2>1. TasksTyped'
    <3>1. WorkTyped' BY <1>0, <1>7 DEF Tasks!Truncate, Tasks!Resets, Tasks!Tasks,
        Tasks!past, WorkTyped, Tasks!WorkItem, TasksTyped
    <3>2. RecTyped' BY <1>0, <1>7 DEF Tasks!Truncate, Tasks!Resets, Tasks!Tasks,
        Tasks!past, RecTyped, TasksTyped
    <3>3. RestTyped' BY <1>0, <1>7 DEF Tasks!Truncate, Tasks!Resets, Tasks!Tasks,
        Tasks!past, RestTyped, TasksTyped
    <3>4. ResetTyped' BY <1>0, <1>7 DEF Tasks!Truncate, Tasks!Resets, Tasks!Tasks,
        Tasks!past, ResetTyped, TasksTyped
    <3>5. AITyped' /\ DupTyped' /\ CleanTyped' /\ CheckTyped'
      BY <1>0, <1>7 DEF Tasks!Truncate, Tasks!past, AITyped, DupTyped, CleanTyped, CheckTyped, TasksTyped
    <3>. QED BY <3>1, <3>2, <3>3, <3>4, <3>5 DEF TasksTyped
  <2>2. CutInv' BY <1>0, <1>7 DEF Tasks!Truncate, Tasks!Resets, Tasks!Tasks,
      Tasks!past, CutInv, TasksTyped, WorkTyped, CleanTyped, ResetTyped, CleanupInv,
      Tasks!WorkItem
  <2>3. CleanupInv' /\ RecordsInv'
    BY <1>0, <1>7 DEF Tasks!Truncate,
      Tasks!Resets, Tasks!Tasks, Tasks!past, CleanupInv, RecordsInv, TasksTyped, DupTyped, RecTyped,
      CleanTyped
  <2>. QED BY <2>1, <2>2, <2>3 DEF TasksInv
<1>8. ASSUME Tasks!Restart PROVE TasksInv'
  <2>1. TasksTyped'
    <3>1. WorkTyped' BY <1>0, <1>8 DEF Tasks!Restart, Tasks!Spend, Tasks!IdleDup,
        Tasks!NoCleanup, Tasks!NoCheck, Tasks!NoReset, Tasks!Requeued, WorkTyped, Tasks!WorkItem,
        TasksTyped
    <3>2. RestTyped' BY <1>0, <1>8, RestAfterRestart DEF TasksTyped
    <3>3. DupTyped' BY <1>0, <1>8 DEF Tasks!Restart, Tasks!Spend, Tasks!IdleDup,
        Tasks!NoCleanup, Tasks!NoCheck, Tasks!NoReset, Tasks!Requeued, DupTyped, TasksTyped
    <3>4. CleanTyped' BY <1>0, <1>8 DEF Tasks!Restart, Tasks!Spend, Tasks!IdleDup,
        Tasks!NoCleanup, Tasks!NoCheck, Tasks!NoReset, Tasks!Requeued, CleanTyped, TasksTyped
    <3>5. CheckTyped' BY <1>0, <1>8 DEF Tasks!Restart, Tasks!Spend, Tasks!IdleDup,
        Tasks!NoCleanup, Tasks!NoCheck, Tasks!NoReset, Tasks!Requeued, CheckTyped, TasksTyped
    <3>6. ResetTyped' BY <1>0, <1>8 DEF Tasks!Restart, Tasks!Spend, Tasks!IdleDup,
        Tasks!NoCleanup, Tasks!NoCheck, Tasks!NoReset, Tasks!Requeued, ResetTyped, TasksTyped
    <3>7. RecTyped' /\ AITyped'
      BY <1>0, <1>8 DEF Tasks!Restart, RecTyped, AITyped, TasksTyped
    <3>. QED BY <3>1, <3>2, <3>3, <3>4, <3>5, <3>6, <3>7 DEF TasksTyped
  <2>2. CutInv' BY <1>0, <1>8 DEF Tasks!Restart, Tasks!Spend, Tasks!IdleDup,
      Tasks!NoCleanup, Tasks!NoCheck, Tasks!NoReset, Tasks!Requeued, CutInv, TasksTyped, WorkTyped,
      CleanTyped, ResetTyped, CleanupInv, Tasks!WorkItem
  <2>3. CleanupInv' /\ RecordsInv'
    BY <1>0, <1>8 DEF Tasks!Restart, Tasks!Spend,
      Tasks!IdleDup, Tasks!NoCleanup, Tasks!NoCheck, Tasks!NoReset, Tasks!Requeued, CleanupInv, RecordsInv,
      TasksTyped, DupTyped, RecTyped, CleanTyped, Tasks!Tasks
  <2>. QED BY <2>1, <2>2, <2>3 DEF TasksInv
<1>. QED BY <1>1, <1>2, <1>3, <1>4, <1>5, <1>6, <1>7, <1>8 DEF Tasks!ResetNext

-----------------------------------------------------------------------------
(* The deletion of media                                                   *)

DiskTyped == disk \in [File -> 0..MaxVersion] /\ dirs \subseteq Folder
RowTyped == /\ row \in [Media -> [st : {"none", "seen", "missing", "deleted"}, id : Nat]]
            /\ nextId \in Nat
FoldersTyped == /\ folders \subseteq Folder /\ link \subseteq Media
                /\ orphaned \subseteq Media /\ raced \subseteq Media
                /\ adding \in Media \cup {"none"}
                /\ refresh \in [due : BOOLEAN, drops : SUBSET SUBSET Folder]
PlanType == [asset : Media \cup {"none"}, id : Nat, mode : {"none", "files", "folder"},
             files : SUBSET (File \X (0..MaxVersion)), dirs : SUBSET Folder,
             warn : {"none", "root", "others"}]
PlanTyped == plan \in PlanType
DelType ==
            [pc : {"idle", "next", "files", "mark", "dirs", "under", "purge", "records"},
             how : {"none", "confirmed", "batch"}, asset : Media \cup {"none"},
             mode : {"none", "files", "folder"}, cur : File \cup {"none"},
             todo : SUBSET File, dirs : SUBSET Folder, fails : BOOLEAN,
             ids : SUBSET Nat, list : SUBSET Nat, direct : SUBSET Nat,
             shown : SUBSET File, removed : SUBSET File, absent : SUBSET Media, crossed : BOOLEAN]
DelTyped == del \in DelType

DirsInv == \A f \in Del!Here : Above[Dir[f]] \subseteq dirs
IdInv ==
    /\ nextId > 0
    /\ \A m \in Media : IF row[m].st = "none" THEN row[m].id = 0 ELSE row[m].id \in 1..nextId - 1
    /\ \A m, o \in Media : row[m].st # "none" /\ row[o].st # "none" /\ row[m].id = row[o].id => m = o

ShapeInv ==
    /\ del.pc = "idle" => del = Del!NoDel
    /\ del.pc \in {"next", "records"} => del.how = "batch"
    /\ del.pc \in {"files", "mark", "dirs", "under"} => del.asset \in Media
    /\ del.mode = "folder" => del.asset \in Media /\ Dir[del.asset] \in del.dirs
    /\ del.pc \in {"dirs", "under"} => del.mode = "folder"
Alike(m) == Dir[m] = Dir[del.asset] /\ Stem[m] = Stem[del.asset]
ChoiceInv ==
    /\ del.how = "confirmed" => del.removed \cup del.todo \subseteq del.shown
    /\ \A m \in (del.removed \cup del.todo) \cap Media : Alike(m)
AbsentInv ==
    /\ del.pc # "idle" => Del!Absent(disk, root) \subseteq del.absent
    /\ del.pc = "mark" => del.cur \in del.absent
    /\ del.pc = "under" => Del!Below(Dir[del.asset]) \cap Media \subseteq del.absent
Doomed(m) == row[m].st # "none" /\ row[m].id \in del.ids \cup del.direct
PurgeInv ==
    /\ ~del.crossed => /\ \A m \in Media : Doomed(m) => m \in del.absent
                       /\ \A i \in del.ids \cup del.direct : i < nextId
    /\ orphaned = {}

FoldersHold(m) == m \in link /\ Above[Dir[m]] \subseteq folders
FoldersInv ==
    /\ \A m \in Del!Seen \ raced : FoldersHold(m) /\ \A drop \in refresh.drops : drop \cap Above[Dir[m]] = {}
    /\ adding # "none" /\ adding \notin raced =>
          Above[Dir[adding]] \subseteq folders \/ (folders = {} /\ Del!Seen = {})

DelTypes == DiskTyped /\ RowTyped /\ FoldersTyped /\ PlanTyped /\ DelTyped

LEMMA Layout ==
  /\ Media \subseteq File /\ Dir \in [File -> Folder] /\ Above \in [Folder -> SUBSET Folder]
  /\ \A f \in Folder : f \in Above[f]
BY MaintenanceAssumption DEF MaintenanceAssumption

LEMMA PairOf == ASSUME NEW A, NEW B, NEW x \in A, NEW y \in B PROVE <<x, y>> \in A \X B
OBVIOUS

LEMMA FirstOf == ASSUME NEW A, NEW B, NEW e \in A \X B PROVE e[1] \in A
OBVIOUS

LEMMA PlanFacts ==
  ASSUME NEW a \in Media, a \in Del!Here, DiskTyped, RowTyped, DirsInv
  PROVE  /\ Del!PlanFor(a) \in PlanType /\ Del!PlanFor(a).asset = a
         /\ Del!Names(Del!PlanFor(a)) \subseteq File
         /\ \A m \in Del!Names(Del!PlanFor(a)) \cap Media : Dir[m] = Dir[a] /\ Stem[m] = Stem[a]
         /\ Del!PlanFor(a).mode = "folder" => Dir[a] \in Del!PlanFor(a).dirs
<1>. DEFINE beside == {m \in Media \cap Del!Here : Dir[m] = Dir[a]}
            whole == beside = {a} /\ Dir[a] \notin Protected /\ Del!OtherMedia(a) = {}
            named == {f \in Del!Here : Dir[f] = Dir[a] /\ Stem[f] = Stem[a]}
            files == IF whole THEN Del!Below(Dir[a]) \cap Del!Here ELSE named
            warn == IF whole \/ beside # {a} THEN "none" ELSE IF Dir[a] \in Protected THEN "root" ELSE "others"
            p == Del!PlanFor(a)
<1>1. /\ p.asset = a /\ p.id = row[a].id /\ p.mode = IF whole THEN "folder" ELSE "files"
      /\ p.files = {<<f, disk[f]>> : f \in files}
      /\ p.dirs = IF whole THEN Del!Inside(Dir[a]) \cap dirs ELSE {}
      /\ p.warn \in {"none", "root", "others"}
      /\ p = [asset |-> p.asset, id |-> p.id, mode |-> p.mode, files |-> p.files, dirs |-> p.dirs, warn |-> p.warn]
  BY DEF Del!PlanFor
<1>2. files \subseteq File BY DEF Del!Here, Del!Below
<1>3. \A m \in files \cap Media : Dir[m] = Dir[a] /\ Stem[m] = Stem[a]
  <2>1. CASE whole
    <3>1. \A m \in files \cap Media : m = a BY <2>1 DEF Del!OtherMedia
    <3>. QED BY <3>1
  <2>2. CASE ~whole BY <2>2
  <2>. QED BY <2>1, <2>2
<1>4. whole => Dir[a] \in Del!Inside(Dir[a]) \cap dirs
  BY Layout DEF DirsInv, Del!Inside, DiskTyped
<1>5. p \in PlanType
  <2>1. p.files \subseteq File \X (0..MaxVersion)
    <3>1. ASSUME NEW f \in files PROVE <<f, disk[f]>> \in File \X (0..MaxVersion)
      <4>1. f \in File BY <1>2
      <4>2. disk[f] \in 0..MaxVersion BY <4>1 DEF DiskTyped
      <4>. QED BY <4>1, <4>2, PairOf
    <3>. QED BY <1>1, <3>1
  <2>2. p.dirs \subseteq Folder BY <1>1 DEF Del!Inside
  <2>3. p.id \in Nat BY <1>1 DEF RowTyped
  <2>4. p.asset \in Media \cup {"none"} /\ p.mode \in {"none", "files", "folder"} /\ p.warn \in {"none", "root", "others"}
    BY <1>1
  <2>. HIDE DEF p
  <2>. QED BY <1>1, <2>1, <2>2, <2>3, <2>4 DEF PlanType
<1>6. Del!Names(p) = files
  <2>. HIDE DEF p, files
  <2>1. p.files = {<<f, disk[f]>> : f \in files} BY <1>1
  <2>2. ASSUME NEW f \in files PROVE f \in Del!Names(p)
    <3>1. <<f, disk[f]>> \in p.files /\ <<f, disk[f]>>[1] = f BY <2>1
    <3>. QED BY <3>1 DEF Del!Names
  <2>3. ASSUME NEW x \in Del!Names(p) PROVE x \in files
    <3>1. PICK e \in p.files : x = e[1] BY DEF Del!Names
    <3>2. PICK f \in files : e = <<f, disk[f]>> BY <2>1
    <3>. QED BY <3>1, <3>2
  <2>. QED BY <2>2, <2>3
<1>. HIDE DEF p, files, whole
<1>. QED BY <1>1, <1>2, <1>3, <1>4, <1>5, <1>6 DEF p

LEMMA ExecutingFacts ==
  ASSUME NEW d \in DelType, NEW p \in PlanType
  PROVE  /\ Del!Executing(d, p) \in DelType
         /\ Del!Executing(d, p) = [d EXCEPT !.pc = "files", !.asset = p.asset, !.mode = p.mode,
               !.todo = Del!Names(p), !.dirs = p.dirs, !.fails = FALSE, !.ids = {}, !.removed = {}]
<1>1. Del!Names(p) \in SUBSET File
  <2>1. p.files \in SUBSET (File \X (0..MaxVersion)) BY DEF PlanType
  <2>2. \A e \in p.files : e[1] \in File BY <2>1, FirstOf
  <2>. QED BY <2>2 DEF Del!Names
<1>. QED BY <1>1 DEF Del!Executing, DelType, PlanType

\* What no step of a deletion touches before its end.
Carries(d, e) ==
    /\ e.how = d.how /\ e.asset = d.asset /\ e.mode = d.mode /\ e.dirs = d.dirs
    /\ e.direct = d.direct /\ e.shown = d.shown /\ e.crossed = d.crossed

LEMMA OnwardFacts ==
  ASSUME NEW d \in DelType
  PROVE  LET e == Del!Onward(d) IN
         /\ e \in DelType /\ Carries(d, e) /\ e.todo = d.todo /\ e.ids = d.ids
         /\ e.removed = d.removed /\ e.absent = d.absent
         /\ e.pc \in {"files", "dirs", "purge"} /\ (e.pc = "dirs" => d.mode = "folder")
<1>1. Del!After(d) \in {"files", "dirs", "purge"} /\ (Del!After(d) = "dirs" => d.mode = "folder")
  BY DEF Del!After
<1>2. Del!Onward(d) = [d EXCEPT !.pc = Del!After(d), !.cur = "none"] BY DEF Del!Onward
<1>3. Del!Onward(d) \in DelType BY <1>1, <1>2 DEF DelType
<1>. QED BY <1>1, <1>2, <1>3 DEF DelType, Carries

LEMMA RemoveFileFacts ==
  ASSUME NEW f \in File, Del!RemoveFile(f), DelTyped, DiskTyped
  PROVE  /\ DelTyped' /\ DiskTyped' /\ Carries(del, del') /\ del'.ids = del.ids
         /\ f \in del.todo /\ del'.todo \subseteq del.todo /\ del'.removed \subseteq del.removed \cup {f}
         /\ del.absent \subseteq del'.absent /\ (disk' # disk => Del!Absent(disk', root) \subseteq del'.absent)
         /\ del'.pc \in {"files", "mark", "dirs", "purge"} /\ (del'.pc = "dirs" => del.mode = "folder")
         /\ del'.pc = "mark" => del'.cur \in Media /\ del'.cur \in Del!Absent(disk', root) /\ del'.cur \in del'.absent
<1>. DEFINE d == [del EXCEPT !.todo = @ \ {f}]
<1>1. d \in DelType /\ Carries(del, d) /\ d.todo \subseteq del.todo /\ d.ids = del.ids /\ d.removed = del.removed
      /\ d.absent = del.absent
  BY DEF DelTyped, DelType, Carries
<1>2. CASE del' = Del!Skipped(d, f) /\ UNCHANGED disk
  <2>. DEFINE e == [d EXCEPT !.fails = TRUE]
  <2>1. /\ e \in DelType /\ Carries(d, e) /\ e.todo = d.todo /\ e.ids = d.ids
        /\ e.removed = d.removed /\ e.absent = d.absent
    BY <1>1 DEF DelType, Carries
  <2>2. del' = Del!Onward(e) BY <1>2 DEF Del!Skipped
  <2>. HIDE DEF d, e
  <2>3. f \in del.todo BY DEF Del!RemoveFile
  <2>4. DelTyped' BY <2>1, <2>2, OnwardFacts DEF DelTyped
  <2>5. DiskTyped' BY <1>2 DEF DiskTyped, Del!RemoveFile
  <2>6. /\ Carries(e, del') /\ del'.todo = e.todo /\ del'.ids = e.ids /\ del'.removed = e.removed
        /\ del'.absent = e.absent
        /\ del'.pc \in {"files", "dirs", "purge"} /\ (del'.pc = "dirs" => e.mode = "folder")
    BY <2>1, <2>2, OnwardFacts
  <2>. QED BY <1>1, <1>2, <2>1, <2>3, <2>4, <2>5, <2>6 DEF Carries
<1>3. CASE /\ disk' = IF root = "up" THEN [disk EXCEPT ![f] = 0] ELSE disk
           /\ LET gone == [d EXCEPT !.removed = IF root = "up" /\ f \in Del!Here THEN @ \cup {f} ELSE @,
                                    !.absent = @ \cup Del!Absent(disk', root)]
              IN del' = IF f \in Media THEN [gone EXCEPT !.pc = "mark", !.cur = f] ELSE Del!Onward(gone)
  <2>. DEFINE gone == [d EXCEPT !.removed = IF root = "up" /\ f \in Del!Here THEN @ \cup {f} ELSE @,
                                !.absent = @ \cup Del!Absent(disk', root)]
  <2>1. Del!Absent(disk', root) \subseteq Media BY DEF Del!Absent
  <2>2. /\ gone \in DelType /\ Carries(d, gone) /\ gone.todo = d.todo /\ gone.ids = d.ids
        /\ gone.removed \subseteq d.removed \cup {f} /\ gone.absent = d.absent \cup Del!Absent(disk', root)
    <3>. HIDE DEF d
    <3>. QED BY <1>1, <2>1 DEF DelType, Carries
  <2>3. del' = IF f \in Media THEN [gone EXCEPT !.pc = "mark", !.cur = f] ELSE Del!Onward(gone) BY <1>3
  <2>4. f \in Media => f \in Del!Absent(disk', root) BY <1>3 DEF Del!Absent, DiskTyped
  <2>5. f \in del.todo BY DEF Del!RemoveFile
  <2>6. DiskTyped' BY <1>3, MaintenanceAssumption DEF DiskTyped, Del!RemoveFile, MaintenanceAssumption
  <2>. HIDE DEF d, gone
  <2>7. CASE f \in Media
    <3>1. del' = [gone EXCEPT !.pc = "mark", !.cur = f] BY <2>3, <2>7
    <3>2. DelTyped' BY <2>2, <3>1 DEF DelTyped, DelType
    <3>3. /\ Carries(gone, del') /\ del'.todo = gone.todo /\ del'.ids = gone.ids
          /\ del'.removed = gone.removed /\ del'.absent = gone.absent /\ del'.pc = "mark" /\ del'.cur = f
      BY <2>2, <3>1 DEF DelType, Carries
    <3>. QED BY <1>1, <2>2, <2>4, <2>5, <2>6, <2>7, <3>2, <3>3 DEF Carries
  <2>8. CASE f \notin Media
    <3>1. del' = Del!Onward(gone) BY <2>3, <2>8
    <3>. QED BY <1>1, <2>2, <2>5, <2>6, <3>1, OnwardFacts DEF DelTyped, Carries
  <2>. QED BY <2>7, <2>8
<1>. QED BY <1>2, <1>3 DEF Del!RemoveFile

LEMMA MarkFacts ==
  ASSUME Del!MarkDeleted, DelTyped, RowTyped
  PROVE  /\ DelTyped' /\ Carries(del, del') /\ del'.todo = del.todo /\ del'.removed = del.removed
         /\ del'.absent = del.absent /\ del'.pc \in {"files", "dirs", "purge"} /\ (del'.pc = "dirs" => del.mode = "folder")
         /\ del'.ids \subseteq del.ids \cup {row[m].id : m \in {del.cur} \cap Del!Seen}
<1>1. CASE del' = Del!Onward([del EXCEPT !.ids = @ \cup {row[m].id : m \in {del.cur} \cap Del!Seen}])
  <2>. DEFINE new == {row[m].id : m \in {del.cur} \cap Del!Seen}
              d == [del EXCEPT !.ids = @ \cup new]
  <2>1. new \subseteq Nat BY DEF Del!Seen, RowTyped
  <2>2. /\ d \in DelType /\ Carries(del, d) /\ d.todo = del.todo /\ d.ids = del.ids \cup new
        /\ d.removed = del.removed /\ d.absent = del.absent
    <3>. HIDE DEF new
    <3>. QED BY <2>1 DEF DelTyped, DelType, Carries
  <2>3. del' = Del!Onward(d) BY <1>1
  <2>. HIDE DEF d
  <2>. QED BY <2>2, <2>3, OnwardFacts DEF DelTyped, Carries
<1>2. CASE del' = Del!Onward([del EXCEPT !.fails = TRUE])
  <2>. DEFINE d == [del EXCEPT !.fails = TRUE]
  <2>2. /\ d \in DelType /\ Carries(del, d) /\ d.todo = del.todo /\ d.ids = del.ids
        /\ d.removed = del.removed /\ d.absent = del.absent
    BY DEF DelTyped, DelType, Carries
  <2>3. del' = Del!Onward(d) BY <1>2
  <2>. HIDE DEF d
  <2>. QED BY <2>2, <2>3, OnwardFacts DEF DelTyped, Carries
<1>. QED BY <1>1, <1>2 DEF Del!MarkDeleted

LEMMA DirsFacts ==
  ASSUME Del!RemoveDirs, DelTyped
  PROVE  DelTyped' 
<1>1. del' \in {[del EXCEPT !.pc = "under"], [del EXCEPT !.pc = "purge", !.fails = TRUE]} BY DEF Del!RemoveDirs
<1>2. CASE del' = [del EXCEPT !.pc = "under"] BY <1>2 DEF DelTyped, DelType
<1>3. CASE del' = [del EXCEPT !.pc = "purge", !.fails = TRUE] BY <1>3 DEF DelTyped, DelType
<1>. QED BY <1>1, <1>2, <1>3

LEMMA UnderFacts ==
  ASSUME Del!MarkUnder, DelTyped, RowTyped
  PROVE  /\ DelTyped' /\ Carries(del, del') /\ del'.absent = del.absent /\ del'.pc = "purge"
         /\ del'.todo = del.todo /\ del'.removed = del.removed
         /\ del'.ids \subseteq del.ids \cup {row[m].id : m \in Del!Below(Dir[del.asset]) \cap Del!Seen}
<1>. DEFINE new == {row[m].id : m \in Del!Below(Dir[del.asset]) \cap Del!Seen}
<1>1. new \subseteq Nat BY DEF Del!Seen, RowTyped
<1>2. \/ del' = [del EXCEPT !.pc = "purge", !.ids = @ \cup new]
      \/ del' = [del EXCEPT !.pc = "purge", !.fails = TRUE]
  BY DEF Del!MarkUnder
<1>. HIDE DEF new
<1>3. DelTyped'
  <2>1. CASE del' = [del EXCEPT !.pc = "purge", !.ids = @ \cup new] BY <1>1, <2>1 DEF DelTyped, DelType
  <2>2. CASE del' = [del EXCEPT !.pc = "purge", !.fails = TRUE] BY <2>2 DEF DelTyped, DelType
  <2>. QED BY <1>2, <2>1, <2>2
<1>4. /\ Carries(del, del') /\ del'.absent = del.absent /\ del'.ids \subseteq del.ids \cup new
      /\ del'.pc = "purge" /\ del'.todo = del.todo /\ del'.removed = del.removed
  BY <1>2 DEF DelTyped, DelType, Carries
<1>. QED BY <1>3, <1>4 DEF new
LEMMA NoDelFacts ==
  /\ Del!NoDel \in DelType /\ Del!NoDel.pc = "idle" /\ Del!NoDel.how = "none" /\ Del!NoDel.mode = "none"
  /\ Del!NoDel.todo = {} /\ Del!NoDel.removed = {} /\ Del!NoDel.ids = {} /\ Del!NoDel.direct = {}
BY DEF Del!NoDel, DelType

DeletingInv == DelTypes /\ DirsInv /\ IdInv /\ ShapeInv /\ ChoiceInv /\ AbsentInv /\ PurgeInv
DeletionInv == DeletingInv /\ FoldersInv

LEMMA DiskAfterChange ==
  ASSUME NEW f \in File, Del!FileChanges(f), DiskTyped PROVE DiskTyped'
<1>1. PICK v \in {0, disk[f] + 1} \ {disk[f]} :
        /\ v <= MaxVersion /\ disk' = [disk EXCEPT ![f] = v]
        /\ dirs' = IF v = 0 THEN dirs ELSE dirs \cup Above[Dir[f]]
  BY DEF Del!FileChanges
<1>2. v \in 0..MaxVersion BY <1>1, MaintenanceAssumption DEF DiskTyped, MaintenanceAssumption
<1>. QED BY <1>1, <1>2, Layout DEF DiskTyped

LEMMA RemoveFileSteps ==
  ASSUME NEW f \in File, Del!RemoveFile(f), DeletingInv
  PROVE  DelTyped' /\ ShapeInv' /\ ChoiceInv' /\ AbsentInv' /\ PurgeInv'
<1>. USE DEF DeletingInv, DelTypes
<1>. root' = root BY DEF Del!RemoveFile
<1>0. del.pc = "files" /\ UNCHANGED <<row, nextId, orphaned>> BY DEF Del!RemoveFile, Del!library, Del!marks
<1>1. ShapeInv' BY <1>0, RemoveFileFacts DEF ShapeInv, Carries
<1>2. ChoiceInv' BY RemoveFileFacts DEF ChoiceInv, Alike, Carries
<1>3. AbsentInv' BY <1>0, RemoveFileFacts DEF AbsentInv, Carries
<1>4. PurgeInv' BY <1>0, RemoveFileFacts DEF PurgeInv, Carries, Doomed
<1>. QED BY <1>1, <1>2, <1>3, <1>4, RemoveFileFacts

LEMMA MarkSteps ==
  ASSUME Del!MarkDeleted, DeletingInv
  PROVE  DelTyped' /\ ShapeInv' /\ ChoiceInv' /\ AbsentInv' /\ PurgeInv'
<1>. USE DEF DeletingInv, DelTypes
<1>. root' = root BY DEF Del!MarkDeleted
<1>0. del.pc = "mark" /\ UNCHANGED <<disk, nextId, orphaned>> /\ (row' = row \/ row' = Del!Struck({del.cur} \cap Del!Seen))
  BY DEF Del!MarkDeleted, Del!marks
<1>1. ShapeInv' BY <1>0, MarkFacts DEF ShapeInv, Carries
<1>2. ChoiceInv' BY MarkFacts DEF ChoiceInv, Alike, Carries
<1>3. AbsentInv' BY <1>0, MarkFacts DEF AbsentInv, Carries
<1>4. PurgeInv'
  <2>1. \A m \in Media : /\ row'[m].id = row[m].id /\ (row'[m].st = "none" <=> row[m].st = "none")
    BY <1>0 DEF Del!Struck, RowTyped, Del!Seen
  <2>2. \A m \in {del.cur} \cap Del!Seen : m \in Media /\ m \in del.absent /\ row[m].st # "none"
    BY <1>0 DEF AbsentInv, Del!Seen
  <2>3. \A m \in {del.cur} \cap Del!Seen : row[m].id < nextId BY <2>2 DEF IdInv, RowTyped
  <2>4. \A m \in {del.cur} \cap Del!Seen, o \in Media : row[o].st # "none" /\ row[o].id = row[m].id => o = m
    BY <2>2 DEF IdInv
  <2>. QED BY <1>0, <2>1, <2>2, <2>3, <2>4, MarkFacts DEF PurgeInv, Carries, Doomed
<1>. QED BY <1>1, <1>2, <1>3, <1>4, MarkFacts

LEMMA UnderSteps ==
  ASSUME Del!MarkUnder, DeletingInv
  PROVE  PurgeInv'
<1>. USE DEF DeletingInv, DelTypes
<1>. root' = root BY DEF Del!MarkUnder
<1>. DEFINE under == Del!Below(Dir[del.asset]) \cap Del!Seen
<1>0. del.pc = "under" /\ UNCHANGED <<disk, nextId, orphaned>> /\ (row' = row \/ row' = Del!Struck(under))
  BY DEF Del!MarkUnder, Del!marks
<1>1. \A m \in Media : /\ row'[m].id = row[m].id /\ (row'[m].st = "none" <=> row[m].st = "none")
  BY <1>0 DEF Del!Struck, RowTyped, Del!Seen
<1>2. \A m \in under : m \in Media /\ m \in del.absent /\ row[m].st # "none"
  BY <1>0 DEF AbsentInv, Del!Seen
<1>3. \A m \in under : row[m].id < nextId BY <1>2 DEF IdInv, RowTyped
<1>4. \A m \in under, o \in Media : row[o].st # "none" /\ row[o].id = row[m].id => o = m
  BY <1>2 DEF IdInv
<1>. HIDE DEF under
<1>5. del'.ids \subseteq del.ids \cup {row[m].id : m \in under} BY UnderFacts DEF under
<1>. QED BY <1>0, <1>1, <1>2, <1>3, <1>4, <1>5, UnderFacts DEF PurgeInv, Carries, Doomed

LEMMA BatchFacts ==
  ASSUME NEW S \in SUBSET Media, Del!BeginBatch(S), DelTyped, RowTyped
  PROVE  DelTyped'
<1>1. {row[m].id : m \in S} \subseteq Nat BY DEF RowTyped
<1>2. Del!Absent(disk, root) \subseteq Media BY DEF Del!Absent
<1>3. del' = [Del!NoDel EXCEPT !.pc = "next", !.how = "batch", !.list = {row[m].id : m \in S}, !.absent = Del!Absent(disk, root)]
  BY DEF Del!BeginBatch
<1>. QED BY <1>1, <1>2, <1>3, NoDelFacts DEF DelTyped, DelType

LEMMA ShowFacts == ASSUME NEW a \in Media, Del!ShowPlan(a), DiskTyped, RowTyped, DirsInv PROVE PlanTyped'
BY PlanFacts DEF Del!ShowPlan, Del!NoPlanFor, PlanTyped

\* Either nothing begins, or the plan that was shown is carried out.
LEMMA ConfirmFacts ==
  ASSUME Del!Confirm, DeletingInv
  PROVE  /\ PlanTyped' /\ DelTyped' /\ UNCHANGED <<disk, row, nextId, orphaned>> /\ del.pc = "idle"
         /\ \/ del' = del
            \/ /\ del'.pc = "files" /\ del'.how = "confirmed" /\ del'.asset \in Media
               /\ del'.mode = "folder" => Dir[del'.asset] \in del'.dirs
               /\ del'.removed = {} /\ del'.todo = del'.shown /\ del'.ids = {} /\ del'.direct = {}
               /\ del'.absent = Del!Absent(disk, root)
               /\ \A m \in del'.todo \cap Media : Dir[m] = Dir[del'.asset] /\ Stem[m] = Stem[del'.asset]
<1>. USE DEF DeletingInv, DelTypes
<1>1. PICK a \in Del!Seen :
          /\ ~Del!NoPlanFor(a)
          /\ LET now == Del!PlanFor(a) IN
             \/ /\ now = plan /\ plan' = Del!NoPlan
                /\ del' = [Del!Executing(Del!NoDel, now) EXCEPT !.how = "confirmed", !.shown = Del!Names(plan),
                                                               !.absent = Del!Absent(disk, root)]
             \/ plan' = now /\ UNCHANGED del
  BY DEF Del!Confirm, Del!SameToken
<1>2. a \in Media /\ a \in Del!Here BY <1>1 DEF Del!Seen, Del!NoPlanFor
<1>3. UNCHANGED <<disk, row, nextId, orphaned>> /\ del.pc = "idle" BY DEF Del!Confirm, Del!library, Del!marks
<1>. DEFINE now == Del!PlanFor(a)
<1>4. CASE plan' = now /\ UNCHANGED del BY <1>2, <1>3, <1>4, PlanFacts DEF PlanTyped, DelTyped
<1>5. CASE /\ now = plan /\ plan' = Del!NoPlan
           /\ del' = [Del!Executing(Del!NoDel, now) EXCEPT !.how = "confirmed", !.shown = Del!Names(plan),
                                                          !.absent = Del!Absent(disk, root)]
  <2>1. Del!NoPlan \in PlanType BY DEF Del!NoPlan, PlanType
  <2>. DEFINE d == Del!Executing(Del!NoDel, now)
  <2>2. now \in PlanType BY <1>2, PlanFacts
  <2>3. d \in DelType BY <2>2, NoDelFacts, ExecutingFacts
  <2>4. /\ d.pc = "files" /\ d.asset = a /\ d.mode = now.mode /\ d.todo = Del!Names(now) /\ d.dirs = now.dirs
        /\ d.ids = {} /\ d.removed = {} /\ d.direct = {}
    <3>1. now.asset = a BY <1>2, PlanFacts
    <3>2. d = [Del!NoDel EXCEPT !.pc = "files", !.asset = now.asset, !.mode = now.mode,
                 !.todo = Del!Names(now), !.dirs = now.dirs, !.fails = FALSE, !.ids = {}, !.removed = {}]
      BY <2>2, NoDelFacts, ExecutingFacts
    <3>. HIDE DEF now, d
    <3>. QED BY <3>1, <3>2, NoDelFacts DEF DelType
  <2>5. Del!Names(now) \subseteq File BY <1>2, PlanFacts
  <2>6. Del!Absent(disk, root) \subseteq Media BY DEF Del!Absent
  <2>. HIDE DEF d
  <2>7. /\ del'.how = "confirmed" /\ del'.shown = Del!Names(now) /\ del'.absent = Del!Absent(disk, root)
        /\ del'.pc = d.pc /\ del'.asset = d.asset /\ del'.mode = d.mode /\ del'.todo = d.todo /\ del'.dirs = d.dirs
        /\ del'.ids = d.ids /\ del'.removed = d.removed /\ del'.direct = d.direct /\ del' \in DelType
    <3>1. del' = [d EXCEPT !.how = "confirmed", !.shown = Del!Names(now), !.absent = Del!Absent(disk, root)]
      BY <1>5 DEF d
    <3>. HIDE DEF now
    <3>. QED BY <2>3, <2>5, <2>6, <3>1 DEF DelType
  <2>8. /\ \A m \in Del!Names(now) \cap Media : Dir[m] = Dir[a] /\ Stem[m] = Stem[a]
        /\ now.mode = "folder" => Dir[a] \in now.dirs
    BY <1>2, PlanFacts
  <2>. HIDE DEF now
  <2>. QED BY <1>2, <1>3, <1>5, <2>1, <2>4, <2>7, <2>8 DEF PlanTyped, DelTyped
<1>. QED BY <1>1, <1>4, <1>5

LEMMA ConfirmSteps ==
  ASSUME Del!Confirm, DeletingInv
  PROVE  ShapeInv' /\ ChoiceInv' /\ AbsentInv' /\ PurgeInv'
<1>. USE DEF DeletingInv, DelTypes
<1>. root' = root BY DEF Del!Confirm
<1>1. ShapeInv' BY ConfirmFacts DEF ShapeInv
<1>2. ChoiceInv' BY ConfirmFacts DEF ChoiceInv, Alike
<1>3. AbsentInv' BY ConfirmFacts DEF AbsentInv, Del!Absent
<1>4. PurgeInv' BY ConfirmFacts DEF PurgeInv, Doomed
<1>. QED BY <1>1, <1>2, <1>3, <1>4


\* A batch goes on, ends, or takes up the next of its assets.
LEMMA NextFacts ==
  ASSUME Del!NextOfBatch, DeletingInv
  PROVE  /\ DelTyped' /\ UNCHANGED <<disk, row, nextId, orphaned>> /\ del.pc = "next"
         /\ \/ del' = Del!NoDel
            \/ /\ Carries(del, del') /\ del'.ids = del.ids /\ del'.todo = del.todo
               /\ del'.removed = del.removed /\ del'.absent = del.absent /\ del'.pc \in {"next", "records"}
            \/ /\ del'.pc = "next" /\ del'.ids = del.ids /\ del'.todo = del.todo /\ del'.removed = del.removed
               /\ del'.absent = del.absent /\ del'.how = del.how /\ del'.asset = del.asset
               /\ del'.mode = del.mode /\ del'.dirs = del.dirs /\ del'.crossed = del.crossed
               /\ \E m \in Del!Absent(disk, root) : del'.direct = del.direct \cup {row[m].id}
            \/ /\ del'.pc = "files" /\ del'.how = del.how /\ del'.direct = del.direct /\ del'.crossed = del.crossed
               /\ del'.absent = del.absent /\ del'.ids = {} /\ del'.removed = {} /\ del'.asset \in Media
               /\ del'.mode = "folder" => Dir[del'.asset] \in del'.dirs
               /\ \A m \in del'.todo \cap Media : Dir[m] = Dir[del'.asset] /\ Stem[m] = Stem[del'.asset]
<1>. USE DEF DeletingInv, DelTypes
<1>1. UNCHANGED <<disk, row, nextId, orphaned>> /\ del.pc = "next"
  BY DEF Del!NextOfBatch, Del!library, Del!marks
<1>2. CASE del' = Del!NoDel BY <1>1, <1>2, NoDelFacts DEF DelTyped
<1>3. CASE del' = [del EXCEPT !.pc = "records"] BY <1>1, <1>3 DEF DelTyped, DelType, Carries
<1>4. CASE \E i \in del.list :
        LET d == [del EXCEPT !.list = @ \ {i}] IN
        \/ del' = d
        \/ \E a \in Media : row[a].id = i /\ del' = IF Del!NoPlanFor(a) THEN [d EXCEPT !.direct = @ \cup {i}]
                                                     ELSE Del!Executing(d, Del!PlanFor(a))
  <2>1. PICK i \in del.list :
        LET d == [del EXCEPT !.list = @ \ {i}] IN
        \/ del' = d
        \/ \E a \in Media : row[a].id = i /\ del' = IF Del!NoPlanFor(a) THEN [d EXCEPT !.direct = @ \cup {i}]
                                                     ELSE Del!Executing(d, Del!PlanFor(a))
    BY <1>4
  <2>. DEFINE d == [del EXCEPT !.list = @ \ {i}]
  <2>2. /\ d \in DelType /\ Carries(del, d) /\ d.pc = "next" /\ d.ids = del.ids /\ d.todo = del.todo
        /\ d.removed = del.removed /\ d.absent = del.absent /\ i \in Nat
    BY <1>1 DEF DelTyped, DelType, Carries
  <2>3. CASE del' = d
    <3>. HIDE DEF d
    <3>. QED BY <1>1, <2>2, <2>3 DEF DelTyped
  <2>4. ASSUME NEW a \in Media, row[a].id = i, Del!NoPlanFor(a), del' = [d EXCEPT !.direct = @ \cup {i}]
        PROVE  /\ DelTyped' /\ del'.pc = "next" /\ del'.ids = del.ids /\ del'.todo = del.todo
               /\ del'.removed = del.removed /\ del'.absent = del.absent /\ del'.how = del.how
               /\ del'.asset = del.asset /\ del'.mode = del.mode /\ del'.dirs = del.dirs
               /\ del'.crossed = del.crossed
               /\ a \in Del!Absent(disk, root) /\ del'.direct = del.direct \cup {row[a].id}
    <3>1. a \in Del!Absent(disk, root)
      BY <2>4, Layout DEF Del!NoPlanFor, Del!Absent, Del!Here, DiskTyped
    <3>. HIDE DEF d
    <3>. QED BY <2>2, <2>4, <3>1 DEF DelTyped, DelType, Carries
  <2>5. ASSUME NEW a \in Media, ~Del!NoPlanFor(a), del' = Del!Executing(d, Del!PlanFor(a))
        PROVE  /\ DelTyped' /\ del'.pc = "files" /\ del'.how = del.how /\ del'.direct = del.direct
               /\ del'.crossed = del.crossed /\ del'.absent = del.absent /\ del'.ids = {} /\ del'.removed = {}
               /\ del'.asset \in Media /\ (del'.mode = "folder" => Dir[del'.asset] \in del'.dirs)
               /\ \A m \in del'.todo \cap Media : Dir[m] = Dir[del'.asset] /\ Stem[m] = Stem[del'.asset]
    <3>. DEFINE p == Del!PlanFor(a)
    <3>1. a \in Del!Here BY <2>5 DEF Del!NoPlanFor
    <3>2. /\ p \in PlanType /\ p.asset = a /\ (p.mode = "folder" => Dir[a] \in p.dirs)
          /\ \A m \in Del!Names(p) \cap Media : Dir[m] = Dir[a] /\ Stem[m] = Stem[a]
      BY <3>1, PlanFacts
    <3>. HIDE DEF d, p
    <3>3. /\ del' \in DelType
          /\ del' = [d EXCEPT !.pc = "files", !.asset = p.asset, !.mode = p.mode, !.todo = Del!Names(p),
                              !.dirs = p.dirs, !.fails = FALSE, !.ids = {}, !.removed = {}]
      BY <2>2, <2>5, <3>2, ExecutingFacts DEF p
    <3>4. /\ del'.pc = "files" /\ del'.how = d.how /\ del'.direct = d.direct /\ del'.crossed = d.crossed
          /\ del'.absent = d.absent /\ del'.ids = {} /\ del'.removed = {} /\ del'.asset = p.asset
          /\ del'.mode = p.mode /\ del'.dirs = p.dirs /\ del'.todo = Del!Names(p)
      BY <2>2, <3>3 DEF DelType
    <3>. QED BY <2>2, <3>2, <3>3, <3>4 DEF DelTyped, Carries
  <2>. HIDE DEF d
  <2>. QED BY <1>1, <2>1, <2>3, <2>4, <2>5 DEF d
<1>. QED BY <1>2, <1>3, <1>4 DEF Del!NextOfBatch

LEMMA NextSteps ==
  ASSUME Del!NextOfBatch, DeletingInv
  PROVE  ShapeInv' /\ ChoiceInv' /\ AbsentInv' /\ PurgeInv'
<1>. USE DEF DeletingInv, DelTypes
<1>. root' = root BY DEF Del!NextOfBatch
<1>0. del.how = "batch" /\ del.pc = "next" BY NextFacts DEF ShapeInv
<1>1. ShapeInv' BY <1>0, NextFacts, NoDelFacts DEF ShapeInv, Carries
<1>2. ChoiceInv' BY <1>0, NextFacts, NoDelFacts DEF ChoiceInv, Alike, Carries
<1>3. AbsentInv' BY <1>0, NextFacts, NoDelFacts DEF AbsentInv, Del!Absent, Carries
<1>4. PurgeInv'
  <2>1. \A m \in Del!Absent(disk, root) : m \in Media /\ m \in del.absent BY <1>0 DEF AbsentInv, Del!Absent
  <2>2. \A m \in Del!Absent(disk, root), o \in Media : row[o].st # "none" /\ row[o].id = row[m].id => o = m
    BY <2>1 DEF IdInv
  <2>3. \A m \in Media : row[m].id < nextId BY DEF IdInv, RowTyped
  <2>. QED BY <2>1, <2>2, <2>3, NextFacts, NoDelFacts DEF PurgeInv, Doomed, Carries
<1>. QED BY <1>1, <1>2, <1>3, <1>4

LEMMA StruckIds ==
  ASSUME RowTyped, IdInv, NEW S, S \subseteq Del!Seen, row' \in {row, Del!Struck(S)}, nextId' = nextId
  PROVE  IdInv'
<1>1. \A m \in Media : row'[m].id = row[m].id /\ (row'[m].st = "none" <=> row[m].st = "none")
  BY DEF Del!Struck, RowTyped, Del!Seen
<1>. QED BY <1>1 DEF IdInv

\* What is purged of a deletion's rows was absent.
LEMMA PurgeFacts ==
  ASSUME DeletingInv, NEW ids, ids \subseteq del.ids \cup del.direct, Del!Purge(ids)
  PROVE  orphaned' = {} /\ \A m \in Media : row'[m].st # "none" => row'[m] = row[m]
<1>. USE DEF DeletingInv, DelTypes
<1>1. \A m \in Media : row'[m] = IF row[m].id \in ids THEN Del!NoRow ELSE row[m]
  BY DEF Del!Purge, Del!Purged
<1>2. \A m \in Del!Rowless(row') \ Del!Rowless(row) : Doomed(m)
  BY <1>1 DEF Del!Rowless, Doomed, Del!NoRow
<1>3. orphaned' = {}
  <2>1. CASE del.crossed BY <2>1 DEF Del!Purge, PurgeInv
  <2>2. CASE ~del.crossed
    <3>1. Del!Rowless(row') \ Del!Rowless(row) \subseteq del.absent
      BY <1>2, <2>2 DEF PurgeInv, Del!Rowless
    <3>. QED BY <2>2, <3>1 DEF Del!Purge, PurgeInv
  <2>. QED BY <2>1, <2>2
<1>. QED BY <1>1, <1>3 DEF Del!NoRow

LEMMA PurgeSteps ==
  ASSUME DeletingInv, Del!PurgeRows \/ Del!PurgeDirect
  PROVE  /\ DelTyped' /\ PurgeInv' /\ FoldersTyped' /\ RowTyped'
         /\ \A m \in Media : row'[m].st # "none" => row'[m] = row[m] /\ (m \in link => m \in link')
         /\ UNCHANGED <<folders, adding, raced>> /\ refresh'.drops = refresh.drops
<1>. USE DEF DeletingInv, DelTypes
<1>1. orphaned' = {} /\ \A m \in Media : row'[m].st # "none" => row'[m] = row[m]
  <2>1. CASE UNCHANGED <<row, link, orphaned>> BY <2>1 DEF PurgeInv
  <2>2. CASE Del!Purge(del.ids) BY <2>2, PurgeFacts
  <2>3. CASE Del!Purge(del.direct) BY <2>3, PurgeFacts
  <2>. QED BY <2>1, <2>2, <2>3 DEF Del!PurgeRows, Del!PurgeDirect
<1>2. nextId' = nextId BY DEF Del!PurgeRows, Del!PurgeDirect
<1>3. /\ link' \subseteq link /\ UNCHANGED <<folders, adding, raced>>
      /\ refresh' \in {refresh, [refresh EXCEPT !.due = TRUE]}
  BY DEF Del!PurgeRows, Del!PurgeDirect, Del!Purge, Del!Due
<1>4. FoldersTyped' BY <1>1, <1>3 DEF FoldersTyped
<1>5. RowTyped'
  <2>1. row' = row \/ \E ids : row' = Del!Purged(ids) BY DEF Del!PurgeRows, Del!PurgeDirect, Del!Purge
  <2>. QED BY <1>2, <2>1 DEF RowTyped, Del!Purged, Del!NoRow
<1>6. ASSUME del' = Del!NoDel PROVE DelTyped' /\ PurgeInv'
  <2>1. DelTyped' BY <1>6, NoDelFacts DEF DelTyped
  <2>2. PurgeInv' BY <1>1, <1>6, NoDelFacts DEF PurgeInv, Doomed
  <2>. QED BY <2>1, <2>2
<1>7. ASSUME del' = [del EXCEPT !.pc = "next"] PROVE DelTyped' /\ PurgeInv'
  <2>1. /\ del'.ids = del.ids /\ del'.direct = del.direct /\ del'.absent = del.absent /\ del'.crossed = del.crossed
        /\ del' \in DelType
    BY <1>7 DEF DelTyped, DelType
  <2>2. DelTyped' BY <2>1 DEF DelTyped
  <2>3. PurgeInv' BY <1>1, <1>2, <2>1 DEF PurgeInv, Doomed
  <2>. QED BY <2>2, <2>3
<1>8. /\ \A m \in Media : row'[m].st # "none" /\ m \in link => m \in link'
      /\ UNCHANGED <<folders, adding, raced>> /\ refresh'.drops = refresh.drops
  <2>1. link' = link \/ link' = link \ Del!Rowless(row') BY DEF Del!PurgeRows, Del!PurgeDirect, Del!Purge
  <2>. QED BY <1>3, <2>1 DEF Del!Rowless, FoldersTyped
<1>. QED BY <1>1, <1>4, <1>5, <1>6, <1>7, <1>8 DEF Del!PurgeRows, Del!PurgeDirect

LEMMA TruncateSteps ==
  ASSUME Del!TruncateLibrary, DeletingInv, root' = root
  PROVE  ShapeInv' /\ PurgeInv'
<1>. USE DEF DeletingInv, DelTypes
<1>1. del' = [del EXCEPT !.crossed = del.pc # "idle"] /\ (del.pc # "idle") \in BOOLEAN /\ orphaned' = orphaned
  BY DEF Del!TruncateLibrary
<1>2. Carries([del EXCEPT !.crossed = del'.crossed], del') /\ del'.pc = del.pc /\ del'.ids = del.ids
      /\ (del'.crossed = (del.pc # "idle"))
  BY <1>1 DEF DelTyped, DelType, Carries
<1>3. CASE del.pc = "idle"
  <2>1. del = Del!NoDel BY <1>3 DEF ShapeInv
  <2>2. (del.pc # "idle") = FALSE BY <1>3
  <2>3. del' = [Del!NoDel EXCEPT !.crossed = FALSE] BY <1>1, <2>1, <2>2
  <2>4. del' = del
    <3>1. Del!NoDel \in DelType /\ Del!NoDel.crossed = FALSE BY NoDelFacts DEF Del!NoDel
    <3>2. [Del!NoDel EXCEPT !.crossed = FALSE] = Del!NoDel BY <3>1 DEF DelType
    <3>. QED BY <2>1, <2>3, <3>2
  <2>. QED BY <1>1, <1>3, <2>1, <2>4, NoDelFacts DEF ShapeInv, PurgeInv, Doomed
<1>4. CASE del.pc # "idle"
  <2>1. ShapeInv' BY <1>1, <1>4 DEF ShapeInv, DelTyped, DelType
  <2>2. PurgeInv' BY <1>1, <1>2, <1>4 DEF PurgeInv
  <2>. QED BY <2>1, <2>2
<1>. QED BY <1>3, <1>4

-----------------------------------------------------------------------------
(* The rows and the disk                                                   *)

LEMMA RowsSteps == DeletionInv /\ Del!RowsNext => DeletionInv'
<1>. SUFFICES ASSUME DeletionInv, Del!RowsNext PROVE DeletionInv' OBVIOUS
<1>0. DelTypes /\ DirsInv /\ IdInv /\ ShapeInv /\ ChoiceInv /\ AbsentInv /\ PurgeInv /\ FoldersInv
  BY DEF DeletionInv, DeletingInv
<1>1. ASSUME NEW f \in File, Del!FileChanges(f) PROVE DeletionInv'
  <2>1. DiskTyped' BY <1>0, <1>1, DiskAfterChange DEF DelTypes
  <2>2. RowTyped'
    BY <1>0, <1>1, Layout DEF Del!FileChanges, Del!Spend, Del!Watched, Del!Absent, Del!library, Del!marks,
        RowTyped, PlanType, DelTypes
  <2>3. FoldersTyped'
    BY <1>0, <1>1, Layout DEF Del!FileChanges, Del!Spend, Del!Watched, Del!Absent, Del!library, Del!marks,
        FoldersTyped, PlanType, DelTypes
  <2>4. PlanTyped'
    BY <1>0, <1>1, Layout DEF Del!FileChanges, Del!Spend, Del!Watched, Del!Absent, Del!library, Del!marks,
        PlanTyped, PlanType, DelTypes
  <2>5. DelTyped'
    BY <1>0, <1>1, Layout DEF Del!FileChanges, Del!Spend, Del!Watched, Del!Absent, Del!library, Del!marks,
        DelTyped, DelType, PlanType, DiskTyped, RowTyped, FoldersTyped, DelTypes
  <2>6. DirsInv' /\ IdInv'
    BY <1>0, <1>1, Layout DEF Del!FileChanges, Del!Spend, Del!Watched, Del!Absent, Del!library, Del!marks,
        DirsInv, IdInv, DiskTyped, RowTyped, Del!Here, FoldersTyped, DelTypes
  <2>7. ShapeInv'
    BY <1>0, <1>1, Layout DEF Del!FileChanges, Del!Spend, Del!Watched, Del!Absent, Del!library, Del!marks,
        ShapeInv, Alike, DelTyped, DelType, DiskTyped, DirsInv, Del!Below, Del!Here, DelTypes
  <2>8. ChoiceInv'
    BY <1>0, <1>1, Layout DEF Del!FileChanges, Del!Spend, Del!Watched, Del!Absent, Del!library, Del!marks,
        ChoiceInv, Alike, DelTyped, DelType, DiskTyped, DirsInv, Del!Below, Del!Here, DelTypes
  <2>9. AbsentInv'
    BY <1>0, <1>1, Layout DEF Del!FileChanges, Del!Spend, Del!Watched, Del!Absent, Del!library, Del!marks,
        AbsentInv, Alike, DelTyped, DelType, DiskTyped, DirsInv, Del!Below, Del!Here, ShapeInv, DelTypes
  <2>10. PurgeInv'
    BY <1>0, <1>1, Layout DEF Del!FileChanges, Del!Spend, Del!Watched, Del!Absent, Del!library, Del!marks,
        PurgeInv, Doomed, DelTyped, DelType, RowTyped, ShapeInv, IdInv, AbsentInv, FoldersTyped, DelTypes
  <2>11. FoldersInv'
    BY <1>0, <1>1, Layout DEF Del!FileChanges, Del!library, Del!marks, FoldersInv, FoldersHold,
        FoldersTyped, RowTyped, Del!Seen, DelTypes
  <2>. QED BY <2>1, <2>2, <2>3, <2>4, <2>5, <2>6, <2>7, <2>8, <2>9, <2>10, <2>11 DEF DeletionInv, DeletingInv,
      DelTypes
<1>2. ASSUME NEW m \in Media, Del!DeleteRecord(m) PROVE DeletionInv'
  <2>1. DiskTyped' /\ RowTyped' /\ FoldersTyped' /\ PlanTyped'
    BY <1>0, <1>2, Layout DEF Del!DeleteRecord, Del!Spend, Del!Purged, Del!NoRow, Del!Due, Del!marks,
        DiskTyped, RowTyped, FoldersTyped, PlanTyped, PlanType, DelTypes
  <2>2. DelTyped'
    BY <1>0, <1>2, Layout DEF Del!DeleteRecord, Del!marks, DelTyped, DelType, PlanType, DiskTyped, RowTyped,
        FoldersTyped, DelTypes
  <2>3. DirsInv' /\ IdInv'
    BY <1>0, <1>2, Layout DEF Del!DeleteRecord, Del!Spend, Del!Purged, Del!NoRow, Del!Due, Del!marks,
        DirsInv, IdInv, DiskTyped, RowTyped, Del!Here, FoldersTyped, DelTypes
  <2>4. ShapeInv' /\ ChoiceInv' /\ AbsentInv'
    BY <1>0, <1>2, Layout DEF Del!DeleteRecord, Del!marks, ShapeInv, ChoiceInv, AbsentInv, Alike, DelTyped,
        DelType, DiskTyped, DirsInv, Del!Absent, Del!Below, Del!Here, DelTypes
  <2>5. PurgeInv'
    BY <1>0, <1>2, Layout DEF Del!DeleteRecord, Del!Spend, Del!Purged, Del!NoRow, Del!Due, Del!marks,
        PurgeInv, Doomed, DelTyped, DelType, RowTyped, ShapeInv, IdInv, AbsentInv, FoldersTyped, DelTypes
  <2>6. FoldersInv'
    BY <1>0, <1>2, Layout DEF Del!DeleteRecord, Del!Spend, Del!Purged, Del!NoRow, Del!Due, Del!marks,
        FoldersInv, FoldersHold, FoldersTyped, RowTyped, Del!Seen, DelTypes
  <2>. QED BY <2>1, <2>2, <2>3, <2>4, <2>5, <2>6 DEF DeletionInv, DeletingInv, DelTypes
<1>3. ASSUME Del!ScanWrites PROVE DeletionInv'
  <2>1. DiskTyped' /\ RowTyped' /\ FoldersTyped' /\ PlanTyped'
    BY <1>0, <1>3, Layout DEF Del!ScanWrites, DiskTyped, RowTyped, FoldersTyped, PlanTyped, PlanType, DelTypes
  <2>2. DelTyped'
    BY <1>0, <1>3, Layout DEF Del!ScanWrites, DelTyped, DelType, PlanType, DiskTyped, RowTyped,
        FoldersTyped, DelTypes
  <2>3. DirsInv' /\ IdInv'
    BY <1>0, <1>3, Layout DEF Del!ScanWrites, DirsInv, IdInv, DiskTyped, RowTyped, Del!Here, FoldersTyped,
        DelTypes
  <2>4. ShapeInv' /\ ChoiceInv' /\ AbsentInv'
    BY <1>0, <1>3, Layout DEF Del!ScanWrites, ShapeInv, ChoiceInv, AbsentInv, Alike, DelTyped, DelType,
        DiskTyped, DirsInv, Del!Absent, Del!Below, Del!Here, DelTypes
  <2>5. PurgeInv'
    BY <1>0, <1>3, Layout DEF Del!ScanWrites, PurgeInv, Doomed, DelTyped, DelType, RowTyped, ShapeInv,
        IdInv, AbsentInv, FoldersTyped, DelTypes
  <2>6. FoldersInv'
    BY <1>0, <1>3, Layout DEF Del!ScanWrites, FoldersInv, FoldersHold, FoldersTyped, RowTyped, Del!Seen,
        DelTypes
  <2>. QED BY <2>1, <2>2, <2>3, <2>4, <2>5, <2>6 DEF DeletionInv, DeletingInv, DelTypes
<1>4. ASSUME Del!RefreshReads PROVE DeletionInv'
  <2>1. DiskTyped' /\ RowTyped' /\ FoldersTyped' /\ PlanTyped'
    BY <1>0, <1>4, Layout DEF Del!RefreshReads, Del!Needed, Del!Seen, DiskTyped, RowTyped, FoldersTyped,
        PlanTyped, PlanType, DelTypes
  <2>2. DelTyped'
    BY <1>0, <1>4, Layout DEF Del!RefreshReads, DelTyped, DelType, PlanType, DiskTyped, RowTyped,
        FoldersTyped, DelTypes
  <2>3. DirsInv' /\ IdInv'
    BY <1>0, <1>4, Layout DEF Del!RefreshReads, DirsInv, IdInv, DiskTyped, RowTyped, Del!Here, FoldersTyped,
        DelTypes
  <2>4. ShapeInv' /\ ChoiceInv' /\ AbsentInv'
    BY <1>0, <1>4, Layout DEF Del!RefreshReads, ShapeInv, ChoiceInv, AbsentInv, Alike, DelTyped, DelType,
        DiskTyped, DirsInv, Del!Absent, Del!Below, Del!Here, DelTypes
  <2>5. PurgeInv'
    BY <1>0, <1>4, Layout DEF Del!RefreshReads, PurgeInv, Doomed, DelTyped, DelType, RowTyped, ShapeInv,
        IdInv, AbsentInv, FoldersTyped, DelTypes
  <2>6. FoldersInv'
    BY <1>0, <1>4, Layout DEF Del!RefreshReads, Del!Needed, Del!Seen, FoldersInv, FoldersHold, FoldersTyped,
        RowTyped, DelTypes
  <2>. QED BY <2>1, <2>2, <2>3, <2>4, <2>5, <2>6 DEF DeletionInv, DeletingInv, DelTypes
<1>5. ASSUME Del!RefreshWrites PROVE DeletionInv'
  <2>1. DiskTyped' /\ RowTyped' /\ FoldersTyped' /\ PlanTyped'
    BY <1>0, <1>5, Layout DEF Del!RefreshWrites, DiskTyped, RowTyped, FoldersTyped, PlanTyped, PlanType,
        DelTypes
  <2>2. DelTyped'
    BY <1>0, <1>5, Layout DEF Del!RefreshWrites, DelTyped, DelType, PlanType, DiskTyped, RowTyped,
        FoldersTyped, DelTypes
  <2>3. DirsInv' /\ IdInv'
    BY <1>0, <1>5, Layout DEF Del!RefreshWrites, DirsInv, IdInv, DiskTyped, RowTyped, Del!Here,
        FoldersTyped, DelTypes
  <2>4. ShapeInv' /\ ChoiceInv' /\ AbsentInv'
    BY <1>0, <1>5, Layout DEF Del!RefreshWrites, ShapeInv, ChoiceInv, AbsentInv, Alike, DelTyped, DelType,
        DiskTyped, DirsInv, Del!Absent, Del!Below, Del!Here, DelTypes
  <2>5. PurgeInv'
    BY <1>0, <1>5, Layout DEF Del!RefreshWrites, PurgeInv, Doomed, DelTyped, DelType, RowTyped, ShapeInv,
        IdInv, AbsentInv, FoldersTyped, DelTypes
  <2>6. FoldersInv'
    BY <1>0, <1>5, Layout DEF Del!RefreshWrites, FoldersInv, FoldersHold, FoldersTyped, RowTyped, Del!Seen,
        DelTypes
  <2>. QED BY <2>1, <2>2, <2>3, <2>4, <2>5, <2>6 DEF DeletionInv, DeletingInv, DelTypes
<1>. QED BY <1>1, <1>2, <1>3, <1>4, <1>5 DEF Del!RowsNext

-----------------------------------------------------------------------------
(* A scan                                                                  *)

LEMMA ScanSteps == DeletionInv /\ Del!ScanNext => DeletionInv'
<1>. SUFFICES ASSUME DeletionInv, Del!ScanNext PROVE DeletionInv' OBVIOUS
<1>0. DelTypes /\ DirsInv /\ IdInv /\ ShapeInv /\ ChoiceInv /\ AbsentInv /\ PurgeInv /\ FoldersInv
  BY DEF DeletionInv, DeletingInv
<1>1. ASSUME NEW m \in Media, Del!ScanFinds(m) PROVE DeletionInv'
  <2>1. DiskTyped' /\ RowTyped' /\ FoldersTyped' /\ PlanTyped'
    BY <1>0, <1>1, Layout DEF Del!ScanFinds, Del!Here, Del!marks, DiskTyped, RowTyped, FoldersTyped,
        PlanTyped, PlanType, DelTypes
  <2>2. DelTyped'
    BY <1>0, <1>1, Layout DEF Del!ScanFinds, Del!marks, DelTyped, DelType, PlanType, DiskTyped, RowTyped,
        FoldersTyped, DelTypes
  <2>3. DirsInv' /\ IdInv'
    BY <1>0, <1>1, Layout DEF Del!ScanFinds, Del!marks, DirsInv, IdInv, DiskTyped, RowTyped, Del!Here,
        FoldersTyped, DelTypes
  <2>4. ShapeInv' /\ ChoiceInv' /\ AbsentInv'
    BY <1>0, <1>1, Layout DEF Del!ScanFinds, Del!marks, ShapeInv, ChoiceInv, AbsentInv, Alike, DelTyped,
        DelType, DiskTyped, DirsInv, Del!Absent, Del!Below, Del!Here, DelTypes
  <2>5. PurgeInv'
    BY <1>0, <1>1, Layout DEF Del!ScanFinds, Del!marks, PurgeInv, Doomed, DelTyped, DelType, RowTyped,
        ShapeInv, IdInv, AbsentInv, FoldersTyped, DelTypes
  <2>6. FoldersInv'
    BY <1>0, <1>1, Layout DEF Del!ScanFinds, Del!Here, Del!marks, FoldersInv, FoldersHold, FoldersTyped,
        RowTyped, Del!Seen, DelTypes
  <2>. QED BY <2>1, <2>2, <2>3, <2>4, <2>5, <2>6 DEF DeletionInv, DeletingInv, DelTypes
<1>2. ASSUME NEW m \in Media, Del!ScanMisses(m) PROVE DeletionInv'
  <2>1. DiskTyped' /\ RowTyped' /\ FoldersTyped' /\ PlanTyped'
    BY <1>0, <1>2, Layout DEF Del!ScanMisses, Del!Seen, Del!Here, Del!marks, DiskTyped, RowTyped,
        FoldersTyped, PlanTyped, PlanType, DelTypes
  <2>2. DelTyped'
    BY <1>0, <1>2, Layout DEF Del!ScanMisses, Del!marks, DelTyped, DelType, PlanType, DiskTyped, RowTyped,
        FoldersTyped, DelTypes
  <2>3. DirsInv' /\ IdInv'
    BY <1>0, <1>2, Layout DEF Del!ScanMisses, Del!Seen, Del!Here, Del!marks, DirsInv, IdInv, DiskTyped,
        RowTyped, FoldersTyped, DelTypes
  <2>4. ShapeInv' /\ ChoiceInv' /\ AbsentInv'
    BY <1>0, <1>2, Layout DEF Del!ScanMisses, Del!marks, ShapeInv, ChoiceInv, AbsentInv, Alike, DelTyped,
        DelType, DiskTyped, DirsInv, Del!Absent, Del!Below, Del!Here, DelTypes
  <2>5. PurgeInv'
    BY <1>0, <1>2, Layout DEF Del!ScanMisses, Del!Seen, Del!Here, Del!marks, PurgeInv, Doomed, DelTyped,
        DelType, RowTyped, ShapeInv, IdInv, AbsentInv, FoldersTyped, DelTypes
  <2>6. FoldersInv'
    BY <1>0, <1>2, Layout DEF Del!ScanMisses, Del!Seen, Del!Here, Del!marks, FoldersInv, FoldersHold,
        FoldersTyped, RowTyped, DelTypes
  <2>. QED BY <2>1, <2>2, <2>3, <2>4, <2>5, <2>6 DEF DeletionInv, DeletingInv, DelTypes
<1>. QED BY <1>1, <1>2 DEF Del!ScanNext

-----------------------------------------------------------------------------
(* A deletion, step by step                                                *)

LEMMA DeleteSteps == DeletionInv /\ Del!DeleteNext => DeletionInv'
<1>. SUFFICES ASSUME DeletionInv, Del!DeleteNext PROVE DeletionInv' OBVIOUS
<1>0. DelTypes /\ DirsInv /\ IdInv /\ ShapeInv /\ ChoiceInv /\ AbsentInv /\ PurgeInv /\ FoldersInv
  BY DEF DeletionInv, DeletingInv
<1>1. ASSUME NEW a \in Media, Del!ShowPlan(a) PROVE DeletionInv'
  <2>1. DiskTyped'
    BY <1>0, <1>1, Layout DEF Del!ShowPlan, Del!Seen, Del!NoPlanFor, Del!Here, Del!PlanFor, Del!OtherMedia,
        Del!Below, Del!Inside, Del!library, Del!marks, DiskTyped, PlanType, DelTypes
  <2>2. RowTyped'
    BY <1>0, <1>1, Layout DEF Del!ShowPlan, Del!Seen, Del!NoPlanFor, Del!Here, Del!PlanFor, Del!OtherMedia,
        Del!Below, Del!Inside, Del!library, Del!marks, RowTyped, PlanType, DelTypes
  <2>3. FoldersTyped'
    BY <1>0, <1>1, Layout DEF Del!ShowPlan, Del!Seen, Del!NoPlanFor, Del!Here, Del!PlanFor, Del!OtherMedia,
        Del!Below, Del!Inside, Del!library, Del!marks, FoldersTyped, PlanType, DelTypes
  <2>4. PlanTyped' BY <1>0, <1>1, ShowFacts DEF DelTypes
  <2>5. DelTyped'
    BY <1>0, <1>1, Layout DEF Del!ShowPlan, Del!library, Del!marks, DelTyped, DelType, PlanType, DiskTyped,
        RowTyped, FoldersTyped, DelTypes
  <2>6. DirsInv' /\ IdInv'
    BY <1>0, <1>1, Layout DEF Del!ShowPlan, Del!library, Del!marks, DirsInv, IdInv, DiskTyped, RowTyped,
        Del!Here, FoldersTyped, DelTypes
  <2>7. ShapeInv'
    BY <1>0, <1>1, Layout DEF Del!ShowPlan, Del!library, Del!marks, ShapeInv, Alike, DelTyped, DelType,
        DiskTyped, DirsInv, Del!Absent, Del!Below, Del!Here, DelTypes
  <2>8. ChoiceInv'
    BY <1>0, <1>1, Layout DEF Del!ShowPlan, Del!library, Del!marks, ChoiceInv, Alike, DelTyped, DelType,
        DiskTyped, DirsInv, Del!Absent, Del!Below, Del!Here, DelTypes
  <2>9. AbsentInv'
    BY <1>0, <1>1, Layout DEF Del!ShowPlan, Del!library, Del!marks, AbsentInv, Alike, DelTyped, DelType,
        DiskTyped, DirsInv, Del!Absent, Del!Below, Del!Here, ShapeInv, DelTypes
  <2>10. PurgeInv'
    BY <1>0, <1>1, Layout DEF Del!ShowPlan, Del!library, Del!marks, PurgeInv, Doomed, DelTyped, DelType,
        RowTyped, ShapeInv, IdInv, AbsentInv, FoldersTyped, DelTypes
  <2>11. FoldersInv'
    BY <1>0, <1>1, Layout DEF Del!ShowPlan, Del!library, Del!marks, FoldersInv, FoldersHold, FoldersTyped,
        RowTyped, Del!Seen, DelTypes
  <2>. QED BY <2>1, <2>2, <2>3, <2>4, <2>5, <2>6, <2>7, <2>8, <2>9, <2>10, <2>11 DEF DeletionInv, DeletingInv,
      DelTypes
<1>2. ASSUME Del!Confirm PROVE DeletionInv'
  <2>1. DiskTyped'
    BY <1>0, <1>2, Layout DEF Del!Confirm, Del!Spend, Del!Seen, Del!NoPlanFor, Del!Here, Del!PlanFor,
        Del!OtherMedia, Del!Below, Del!Inside, Del!SameToken, Del!NoPlan, Del!Executing, Del!Names,
        Del!NoDel, Del!Absent, Del!library, Del!marks, DiskTyped, PlanType, DelTypes
  <2>2. RowTyped'
    BY <1>0, <1>2, Layout DEF Del!Confirm, Del!Spend, Del!Seen, Del!NoPlanFor, Del!Here, Del!PlanFor,
        Del!OtherMedia, Del!Below, Del!Inside, Del!SameToken, Del!NoPlan, Del!Executing, Del!Names,
        Del!NoDel, Del!Absent, Del!library, Del!marks, RowTyped, PlanType, DelTypes
  <2>3. FoldersTyped'
    BY <1>0, <1>2, Layout DEF Del!Confirm, Del!Spend, Del!Seen, Del!NoPlanFor, Del!Here, Del!PlanFor,
        Del!OtherMedia, Del!Below, Del!Inside, Del!SameToken, Del!NoPlan, Del!Executing, Del!Names,
        Del!NoDel, Del!Absent, Del!library, Del!marks, FoldersTyped, PlanType, DelTypes
  <2>4. PlanTyped' BY <1>0, <1>2, ConfirmFacts DEF DeletingInv, DelTypes
  <2>5. DelTyped' BY <1>0, <1>2, ConfirmFacts DEF DeletingInv, DelTypes
  <2>6. DirsInv' /\ IdInv'
    BY <1>0, <1>2, Layout DEF Del!Confirm, Del!library, Del!marks, DirsInv, IdInv, DiskTyped, RowTyped,
        Del!Here, FoldersTyped, DelTypes
  <2>7. ShapeInv' /\ ChoiceInv' /\ AbsentInv' BY <1>0, <1>2, ConfirmSteps DEF DeletingInv, DelTypes
  <2>8. PurgeInv' BY <1>0, <1>2, ConfirmSteps DEF DeletingInv, DelTypes
  <2>9. FoldersInv'
    BY <1>0, <1>2, Layout DEF Del!Confirm, Del!library, Del!marks, FoldersInv, FoldersHold, FoldersTyped,
        RowTyped, Del!Seen, DelTypes
  <2>. QED BY <2>1, <2>2, <2>3, <2>4, <2>5, <2>6, <2>7, <2>8, <2>9 DEF DeletionInv, DeletingInv, DelTypes
<1>3. ASSUME Del!NextOfBatch PROVE DeletionInv'
  <2>1. DiskTyped' /\ RowTyped' /\ FoldersTyped' /\ PlanTyped'
    BY <1>0, <1>3, Layout DEF Del!NextOfBatch, Del!library, Del!marks, DiskTyped, RowTyped, FoldersTyped,
        PlanTyped, PlanType, DelTypes
  <2>2. DelTyped' BY <1>0, <1>3, NextFacts DEF DeletingInv, DelTypes
  <2>3. DirsInv' /\ IdInv'
    BY <1>0, <1>3, Layout DEF Del!NextOfBatch, Del!library, Del!marks, DirsInv, IdInv, DiskTyped, RowTyped,
        Del!Here, FoldersTyped, DelTypes
  <2>4. ShapeInv' /\ ChoiceInv' /\ AbsentInv' BY <1>0, <1>3, NextSteps DEF DeletingInv, DelTypes
  <2>5. PurgeInv' BY <1>0, <1>3, NextSteps DEF DeletingInv, DelTypes
  <2>6. FoldersInv'
    BY <1>0, <1>3, Layout DEF Del!NextOfBatch, Del!library, Del!marks, FoldersInv, FoldersHold,
        FoldersTyped, RowTyped, Del!Seen, DelTypes
  <2>. QED BY <2>1, <2>2, <2>3, <2>4, <2>5, <2>6 DEF DeletionInv, DeletingInv, DelTypes
<1>4. ASSUME Del!MarkDeleted PROVE DeletionInv'
  <2>1. DiskTyped' /\ RowTyped' /\ FoldersTyped' /\ PlanTyped'
    BY <1>0, <1>4, Layout DEF Del!MarkDeleted, Del!Struck, Del!Seen, Del!Onward, Del!After, Del!Spend,
        Del!marks, DiskTyped, RowTyped, FoldersTyped, PlanTyped, PlanType, DelTypes
  <2>2. DelTyped' BY <1>0, <1>4, MarkSteps DEF DeletingInv, DelTypes
  <2>3. DirsInv'
    BY <1>0, <1>4, Layout DEF Del!MarkDeleted, Del!marks, DirsInv, Del!Here, DelTypes
  <2>4. IdInv'
    <3>1. row' \in {row, Del!Struck({del.cur} \cap Del!Seen)} /\ nextId' = nextId
      BY <1>0, <1>4 DEF Del!MarkDeleted
    <3>. QED BY <1>0, <1>4, <3>1, StruckIds DEF DelTypes
  <2>5. ShapeInv' /\ ChoiceInv' /\ AbsentInv' BY <1>0, <1>4, MarkSteps DEF DeletingInv, DelTypes
  <2>6. PurgeInv' BY <1>0, <1>4, MarkSteps DEF DeletingInv, DelTypes
  <2>7. FoldersInv'
    BY <1>0, <1>4, Layout DEF Del!MarkDeleted, Del!Struck, Del!Seen, Del!Onward, Del!After, Del!Spend,
        Del!marks, FoldersInv, FoldersHold, FoldersTyped, RowTyped, DelTypes
  <2>. QED BY <2>1, <2>2, <2>3, <2>4, <2>5, <2>6, <2>7 DEF DeletionInv, DeletingInv, DelTypes
<1>5. ASSUME Del!RemoveDirs PROVE DeletionInv'
  <2>1. DiskTyped' /\ RowTyped' /\ FoldersTyped' /\ PlanTyped'
    BY <1>0, <1>5, Layout DEF Del!RemoveDirs, Del!Removable, Del!Below, Del!Here, Del!Inside, Del!Spend,
        Del!DirsGone, Del!library, Del!marks, DiskTyped, RowTyped, FoldersTyped, PlanTyped, PlanType,
        DelTypes
  <2>2. DelTyped' BY <1>0, <1>5, DirsFacts DEF DeletingInv, DelTypes
  <2>3. DirsInv' /\ IdInv'
    BY <1>0, <1>5, Layout DEF Del!RemoveDirs, Del!Removable, Del!Below, Del!Here, Del!Inside, Del!Spend,
        Del!DirsGone, Del!library, Del!marks, DirsInv, IdInv, DiskTyped, RowTyped, FoldersTyped, DelTypes
  <2>4. ShapeInv' /\ ChoiceInv' /\ AbsentInv'
    BY <1>0, <1>5, Layout DEF Del!RemoveDirs, Del!Removable, Del!Below, Del!Here, Del!Inside, Del!Spend,
        Del!DirsGone, Del!library, Del!marks, ShapeInv, ChoiceInv, AbsentInv, Alike, DelTyped, DelType,
        DiskTyped, DirsInv, Del!Absent, DelTypes
  <2>5. PurgeInv'
    BY <1>0, <1>5, Layout DEF Del!RemoveDirs, Del!Removable, Del!Below, Del!Here, Del!Inside, Del!Spend,
        Del!DirsGone, Del!library, Del!marks, PurgeInv, Doomed, DelTyped, DelType, RowTyped, ShapeInv,
        IdInv, AbsentInv, FoldersTyped, DelTypes
  <2>6. FoldersInv'
    BY <1>0, <1>5, Layout DEF Del!RemoveDirs, Del!library, Del!marks, FoldersInv, FoldersHold, FoldersTyped,
        RowTyped, Del!Seen, DelTypes
  <2>. QED BY <2>1, <2>2, <2>3, <2>4, <2>5, <2>6 DEF DeletionInv, DeletingInv, DelTypes
<1>6. ASSUME Del!MarkUnder PROVE DeletionInv'
  <2>1. DiskTyped'
    BY <1>0, <1>6, Layout DEF Del!MarkUnder, Del!Below, Del!Seen, Del!Struck, Del!Spend, Del!marks,
        DiskTyped, PlanType, DelTypes
  <2>2. RowTyped'
    BY <1>0, <1>6, Layout DEF Del!MarkUnder, Del!Below, Del!Seen, Del!Struck, Del!Spend, Del!marks,
        RowTyped, PlanType, DelTypes
  <2>3. FoldersTyped'
    BY <1>0, <1>6, Layout DEF Del!MarkUnder, Del!Below, Del!Seen, Del!Struck, Del!Spend, Del!marks,
        FoldersTyped, PlanType, DelTypes
  <2>4. PlanTyped'
    BY <1>0, <1>6, Layout DEF Del!MarkUnder, Del!Below, Del!Seen, Del!Struck, Del!Spend, Del!marks,
        PlanTyped, PlanType, DelTypes
  <2>5. DelTyped' BY <1>0, <1>6, UnderFacts DEF DeletingInv, DelTypes
  <2>6. DirsInv'
    BY <1>0, <1>6, Layout DEF Del!MarkUnder, Del!marks, DirsInv, Del!Here, DelTypes
  <2>7. IdInv'
    <3>1. row' \in {row, Del!Struck(Del!Below(Dir[del.asset]) \cap Del!Seen)} /\ nextId' = nextId
      BY <1>0, <1>6 DEF Del!MarkUnder
    <3>. QED BY <1>0, <1>6, <3>1, StruckIds DEF DelTypes
  <2>8. ShapeInv' BY <1>0, <1>6, UnderFacts DEF ShapeInv, Carries, DelTypes
  <2>9. ChoiceInv' BY <1>0, <1>6, UnderFacts DEF ChoiceInv, Alike, Carries, DelTypes
  <2>10. AbsentInv'
    BY <1>0, <1>6, Layout DEF Del!MarkUnder, Del!Below, Del!Seen, Del!Struck, Del!Spend, Del!marks,
        AbsentInv, Alike, DelTyped, DelType, DiskTyped, DirsInv, Del!Absent, Del!Here, ShapeInv, DelTypes
  <2>11. PurgeInv' BY <1>0, <1>6, UnderSteps DEF DeletingInv, DelTypes
  <2>12. FoldersInv'
    BY <1>0, <1>6, Layout DEF Del!MarkUnder, Del!Below, Del!Seen, Del!Struck, Del!Spend, Del!marks,
        FoldersInv, FoldersHold, FoldersTyped, RowTyped, DelTypes
  <2>. QED BY <2>1, <2>2, <2>3, <2>4, <2>5, <2>6, <2>7, <2>8, <2>9, <2>10, <2>11, <2>12 DEF DeletionInv,
      DeletingInv, DelTypes
<1>7. ASSUME Del!PurgeRows PROVE DeletionInv'
  <2>1. RowTyped' /\ FoldersTyped' BY <1>0, <1>7, PurgeSteps DEF DeletingInv, DelTypes
  <2>2. DiskTyped' /\ PlanTyped'
    BY <1>0, <1>7, Layout DEF Del!PurgeRows, DiskTyped, PlanTyped, DelTypes
  <2>3. DelTyped' BY <1>0, <1>7, PurgeSteps DEF DeletingInv, DelTypes
  <2>4. DirsInv' /\ IdInv'
    BY <1>0, <1>7, Layout DEF Del!PurgeRows, Del!Purge, Del!Purged, Del!NoRow, Del!Rowless, Del!Spend,
        Del!Due, Del!NoDel, DirsInv, IdInv, DiskTyped, RowTyped, Del!Here, FoldersTyped, DelTypes
  <2>5. ShapeInv' /\ ChoiceInv' /\ AbsentInv'
    BY <1>0, <1>7, Layout DEF Del!PurgeRows, Del!Purge, Del!Purged, Del!NoRow, Del!Rowless, Del!Spend,
        Del!Due, Del!NoDel, ShapeInv, ChoiceInv, AbsentInv, Alike, DelTyped, DelType, DiskTyped, DirsInv,
        Del!Absent, Del!Below, Del!Here, DelTypes
  <2>6. PurgeInv' BY <1>0, <1>7, PurgeSteps DEF DeletingInv, DelTypes
  <2>7. FoldersInv'
    <3>1. /\ \A m \in Media : row'[m].st # "none" => row'[m] = row[m] /\ (m \in link => m \in link')
          /\ UNCHANGED <<folders, adding, raced>> /\ refresh'.drops = refresh.drops
      BY <1>0, <1>7, PurgeSteps DEF DeletingInv, DelTypes
    <3>. QED BY <1>0, <3>1 DEF FoldersInv, FoldersHold, Del!Seen
  <2>. QED BY <2>1, <2>2, <2>3, <2>4, <2>5, <2>6, <2>7 DEF DeletionInv, DeletingInv, DelTypes
<1>8. ASSUME Del!PurgeDirect PROVE DeletionInv'
  <2>1. RowTyped' /\ FoldersTyped' BY <1>0, <1>8, PurgeSteps DEF DeletingInv, DelTypes
  <2>2. DiskTyped' /\ PlanTyped'
    BY <1>0, <1>8, Layout DEF Del!PurgeDirect, DiskTyped, PlanTyped, DelTypes
  <2>3. DelTyped' BY <1>0, <1>8, PurgeSteps DEF DeletingInv, DelTypes
  <2>4. DirsInv' /\ IdInv'
    BY <1>0, <1>8, Layout DEF Del!PurgeDirect, Del!NoDel, Del!Purge, Del!Purged, Del!NoRow, Del!Rowless,
        Del!Due, Del!Spend, DirsInv, IdInv, DiskTyped, RowTyped, Del!Here, FoldersTyped, DelTypes
  <2>5. ShapeInv' /\ ChoiceInv' /\ AbsentInv'
    BY <1>8, NoDelFacts DEF Del!PurgeDirect, ShapeInv, ChoiceInv, AbsentInv, Alike
  <2>6. PurgeInv' BY <1>0, <1>8, PurgeSteps DEF DeletingInv, DelTypes
  <2>7. FoldersInv'
    <3>1. /\ \A m \in Media : row'[m].st # "none" => row'[m] = row[m] /\ (m \in link => m \in link')
          /\ UNCHANGED <<folders, adding, raced>> /\ refresh'.drops = refresh.drops
      BY <1>0, <1>8, PurgeSteps DEF DeletingInv, DelTypes
    <3>. QED BY <1>0, <3>1 DEF FoldersInv, FoldersHold, Del!Seen
  <2>. QED BY <2>1, <2>2, <2>3, <2>4, <2>5, <2>6, <2>7 DEF DeletionInv, DeletingInv, DelTypes
<1>9. ASSUME NEW S \in SUBSET Media, Del!BeginBatch(S) PROVE DeletionInv'
  <2>1. DiskTyped'
    BY <1>0, <1>9, Layout DEF Del!BeginBatch, Del!Spend, Del!NoDel, Del!Absent, Del!NoPlan, Del!library,
        Del!marks, DiskTyped, PlanType, DelTypes
  <2>2. RowTyped'
    BY <1>0, <1>9, Layout DEF Del!BeginBatch, Del!Spend, Del!NoDel, Del!Absent, Del!NoPlan, Del!library,
        Del!marks, RowTyped, PlanType, DelTypes
  <2>3. FoldersTyped'
    BY <1>0, <1>9, Layout DEF Del!BeginBatch, Del!Spend, Del!NoDel, Del!Absent, Del!NoPlan, Del!library,
        Del!marks, FoldersTyped, PlanType, DelTypes
  <2>4. PlanTyped'
    BY <1>0, <1>9, Layout DEF Del!BeginBatch, Del!Spend, Del!NoDel, Del!Absent, Del!NoPlan, Del!library,
        Del!marks, PlanTyped, PlanType, DelTypes
  <2>5. DelTyped' BY <1>0, <1>9, BatchFacts DEF DeletingInv, DelTypes
  <2>6. DirsInv' /\ IdInv'
    BY <1>0, <1>9, Layout DEF Del!BeginBatch, Del!library, Del!marks, DirsInv, IdInv, DiskTyped, RowTyped,
        Del!Here, FoldersTyped, DelTypes
  <2>7. ShapeInv'
    BY <1>0, <1>9, Layout DEF Del!BeginBatch, Del!Spend, Del!NoDel, Del!Absent, Del!NoPlan, Del!library,
        Del!marks, ShapeInv, Alike, DelTyped, DelType, DiskTyped, DirsInv, Del!Below, Del!Here, DelTypes
  <2>8. ChoiceInv'
    BY <1>0, <1>9, Layout DEF Del!BeginBatch, Del!Spend, Del!NoDel, Del!Absent, Del!NoPlan, Del!library,
        Del!marks, ChoiceInv, Alike, DelTyped, DelType, DiskTyped, DirsInv, Del!Below, Del!Here, DelTypes
  <2>9. AbsentInv'
    BY <1>0, <1>9, Layout DEF Del!BeginBatch, Del!Spend, Del!NoDel, Del!Absent, Del!NoPlan, Del!library,
        Del!marks, AbsentInv, Alike, DelTyped, DelType, DiskTyped, DirsInv, Del!Below, Del!Here, ShapeInv,
        DelTypes
  <2>10. PurgeInv'
    BY <1>0, <1>9, Layout DEF Del!BeginBatch, Del!Spend, Del!NoDel, Del!Absent, Del!NoPlan, Del!library,
        Del!marks, PurgeInv, Doomed, DelTyped, DelType, RowTyped, ShapeInv, IdInv, AbsentInv, FoldersTyped,
        DelTypes
  <2>11. FoldersInv'
    BY <1>0, <1>9, Layout DEF Del!BeginBatch, Del!library, Del!marks, FoldersInv, FoldersHold, FoldersTyped,
        RowTyped, Del!Seen, DelTypes
  <2>. QED BY <2>1, <2>2, <2>3, <2>4, <2>5, <2>6, <2>7, <2>8, <2>9, <2>10, <2>11 DEF DeletionInv, DeletingInv,
      DelTypes
<1>10. ASSUME NEW f \in File, Del!RemoveFile(f) PROVE DeletionInv'
  <2>1. DiskTyped' BY <1>0, <1>10, RemoveFileFacts DEF DelTypes
  <2>2. RowTyped'
    BY <1>0, <1>10, Layout DEF Del!RemoveFile, Del!RemoveFails, Del!Here, Del!Spend, Del!Skipped,
        Del!Onward, Del!After, Del!Absent, Del!library, Del!marks, RowTyped, PlanType, DelTypes
  <2>3. FoldersTyped'
    BY <1>0, <1>10, Layout DEF Del!RemoveFile, Del!RemoveFails, Del!Here, Del!Spend, Del!Skipped,
        Del!Onward, Del!After, Del!Absent, Del!library, Del!marks, FoldersTyped, PlanType, DelTypes
  <2>4. PlanTyped'
    BY <1>0, <1>10, Layout DEF Del!RemoveFile, Del!RemoveFails, Del!Here, Del!Spend, Del!Skipped,
        Del!Onward, Del!After, Del!Absent, Del!library, Del!marks, PlanTyped, PlanType, DelTypes
  <2>5. DelTyped' BY <1>0, <1>10, RemoveFileSteps DEF DeletingInv, DelTypes
  <2>6. DirsInv' /\ IdInv'
    BY <1>0, <1>10, Layout DEF Del!RemoveFile, Del!RemoveFails, Del!Here, Del!Spend, Del!Skipped,
        Del!Onward, Del!After, Del!Absent, Del!library, Del!marks, DirsInv, IdInv, DiskTyped, RowTyped,
        FoldersTyped, DelTypes
  <2>7. ShapeInv' /\ ChoiceInv' /\ AbsentInv' BY <1>0, <1>10, RemoveFileSteps DEF DeletingInv, DelTypes
  <2>8. PurgeInv' BY <1>0, <1>10, RemoveFileSteps DEF DeletingInv, DelTypes
  <2>9. FoldersInv'
    BY <1>0, <1>10, Layout DEF Del!RemoveFile, Del!library, Del!marks, FoldersInv, FoldersHold,
        FoldersTyped, RowTyped, Del!Seen, DelTypes
  <2>. QED BY <2>1, <2>2, <2>3, <2>4, <2>5, <2>6, <2>7, <2>8, <2>9 DEF DeletionInv, DeletingInv, DelTypes
<1>. QED BY <1>1, <1>2, <1>3, <1>4, <1>5, <1>6, <1>7, <1>8, <1>9, <1>10 DEF Del!DeleteNext

-----------------------------------------------------------------------------
(* Steps of other operations                                               *)

LEMMA OtherSteps ==
  ASSUME DeletionInv, root' # root => Del!StorageMoves,
         Del!StorageMoves \/ Del!ClearAll \/ Del!TruncateLibrary \/ Del!Forget
  PROVE  DeletionInv'
<1>0. DelTypes /\ DirsInv /\ IdInv /\ ShapeInv /\ ChoiceInv /\ AbsentInv /\ PurgeInv /\ FoldersInv
  BY DEF DeletionInv, DeletingInv
<1>1. ASSUME Del!StorageMoves PROVE DeletionInv'
  <2>1. DiskTyped' /\ RowTyped' /\ FoldersTyped' /\ PlanTyped'
    BY <1>0, <1>1, Layout DEF Del!StorageMoves, Del!library, Del!marks, DiskTyped, RowTyped, FoldersTyped,
        PlanTyped, PlanType, DelTypes
  <2>2. DelTyped'
    BY <1>0, <1>1, Layout DEF Del!StorageMoves, Del!Watched, Del!Absent, Del!library, Del!marks, DelTyped,
        DelType, PlanType, DiskTyped, RowTyped, FoldersTyped, DelTypes
  <2>3. DirsInv' /\ IdInv'
    BY <1>0, <1>1, Layout DEF Del!StorageMoves, Del!library, Del!marks, DirsInv, IdInv, DiskTyped, RowTyped,
        Del!Here, FoldersTyped, DelTypes
  <2>4. ShapeInv' /\ ChoiceInv' /\ AbsentInv'
    BY <1>0, <1>1, Layout DEF Del!StorageMoves, Del!Watched, Del!Absent, Del!library, Del!marks, ShapeInv,
        ChoiceInv, AbsentInv, Alike, DelTyped, DelType, DiskTyped, DirsInv, Del!Below, Del!Here, DelTypes
  <2>5. PurgeInv'
    BY <1>0, <1>1, Layout DEF Del!StorageMoves, Del!Watched, Del!Absent, Del!library, Del!marks, PurgeInv,
        Doomed, DelTyped, DelType, RowTyped, ShapeInv, IdInv, AbsentInv, FoldersTyped, DelTypes
  <2>6. FoldersInv'
    BY <1>0, <1>1, Layout DEF Del!StorageMoves, Del!library, Del!marks, FoldersInv, FoldersHold,
        FoldersTyped, RowTyped, Del!Seen, DelTypes
  <2>. QED BY <2>1, <2>2, <2>3, <2>4, <2>5, <2>6 DEF DeletionInv, DeletingInv, DelTypes
<1>2. ASSUME Del!ClearAll, root' = root PROVE DeletionInv'
  <2>1. DiskTyped' /\ RowTyped' /\ FoldersTyped' /\ PlanTyped'
    BY <1>0, <1>2, Layout DEF Del!ClearAll, Del!Struck, Del!Seen, Del!Due, Del!marks, DiskTyped, RowTyped,
        FoldersTyped, PlanTyped, PlanType, DelTypes
  <2>2. DelTyped'
    BY <1>0, <1>2, Layout DEF Del!ClearAll, Del!marks, DelTyped, DelType, PlanType, DiskTyped, RowTyped,
        FoldersTyped, DelTypes
  <2>3. DirsInv' /\ IdInv'
    BY <1>0, <1>2, Layout DEF Del!ClearAll, Del!Struck, Del!Seen, Del!Due, Del!marks, DirsInv, IdInv,
        DiskTyped, RowTyped, Del!Here, FoldersTyped, DelTypes
  <2>4. ShapeInv' /\ ChoiceInv' /\ AbsentInv'
    BY <1>0, <1>2, Layout DEF Del!ClearAll, Del!Struck, Del!Seen, Del!Due, Del!marks, ShapeInv, ChoiceInv,
        AbsentInv, Alike, DelTyped, DelType, DiskTyped, DirsInv, Del!Absent, Del!Below, Del!Here, DelTypes
  <2>5. PurgeInv'
    BY <1>0, <1>2, Layout DEF Del!ClearAll, Del!Struck, Del!Seen, Del!Due, Del!marks, PurgeInv, Doomed,
        DelTyped, DelType, RowTyped, ShapeInv, IdInv, AbsentInv, FoldersTyped, DelTypes
  <2>6. FoldersInv'
    BY <1>0, <1>2, Layout DEF Del!ClearAll, Del!Struck, Del!Seen, Del!Due, Del!marks, FoldersInv,
        FoldersHold, FoldersTyped, RowTyped, DelTypes
  <2>. QED BY <2>1, <2>2, <2>3, <2>4, <2>5, <2>6 DEF DeletionInv, DeletingInv, DelTypes
<1>3. ASSUME Del!TruncateLibrary, root' = root PROVE DeletionInv'
  <2>1. DiskTyped'
    BY <1>0, <1>3, Layout DEF Del!TruncateLibrary, Del!NoRow, DiskTyped, PlanType, DelTypes
  <2>2. RowTyped'
    BY <1>0, <1>3, Layout DEF Del!TruncateLibrary, Del!NoRow, RowTyped, PlanType, DelTypes
  <2>3. FoldersTyped'
    BY <1>0, <1>3, Layout DEF Del!TruncateLibrary, Del!NoRow, FoldersTyped, PlanType, DelTypes
  <2>4. PlanTyped'
    BY <1>0, <1>3, Layout DEF Del!TruncateLibrary, Del!NoRow, PlanTyped, PlanType, DelTypes
  <2>5. DelTyped'
    <3>. DEFINE b == del.pc # "idle"
    <3>1. b \in BOOLEAN /\ del' = [del EXCEPT !.crossed = b] BY <1>3 DEF Del!TruncateLibrary
    <3>. HIDE DEF b
    <3>. QED BY <1>0, <3>1 DEF DelTyped, DelType, DelTypes
  <2>6. DirsInv' /\ IdInv'
    BY <1>0, <1>3, Layout DEF Del!TruncateLibrary, Del!NoRow, DirsInv, IdInv, DiskTyped, RowTyped, Del!Here,
        FoldersTyped, DelTypes
  <2>7. ShapeInv' BY <1>0, <1>3, TruncateSteps DEF DeletingInv, DelTypes
  <2>8. ChoiceInv'
    BY <1>0, <1>3, Layout DEF Del!TruncateLibrary, Del!NoRow, ChoiceInv, Alike, DelTyped, DelType,
        DiskTyped, DirsInv, Del!Absent, Del!Below, Del!Here, DelTypes
  <2>9. AbsentInv'
    BY <1>0, <1>3, Layout DEF Del!TruncateLibrary, Del!NoRow, AbsentInv, Alike, DelTyped, DelType,
        DiskTyped, DirsInv, Del!Absent, Del!Below, Del!Here, ShapeInv, DelTypes
  <2>10. PurgeInv' BY <1>0, <1>3, TruncateSteps DEF DeletingInv, DelTypes
  <2>11. FoldersInv'
    BY <1>0, <1>3, Layout DEF Del!TruncateLibrary, Del!NoRow, FoldersInv, FoldersHold, FoldersTyped,
        RowTyped, Del!Seen, DelTypes
  <2>. QED BY <2>1, <2>2, <2>3, <2>4, <2>5, <2>6, <2>7, <2>8, <2>9, <2>10, <2>11 DEF DeletionInv, DeletingInv,
      DelTypes
<1>4. ASSUME Del!Forget, root' = root PROVE DeletionInv'
  <2>1. DiskTyped' /\ RowTyped' /\ FoldersTyped' /\ PlanTyped'
    BY <1>0, <1>4, Layout DEF Del!Forget, Del!NoDel, Del!library, Del!marks, DiskTyped, RowTyped,
        FoldersTyped, PlanTyped, PlanType, DelTypes
  <2>2. DelTyped'
    BY <1>0, <1>4, Layout DEF Del!Forget, Del!NoDel, Del!library, Del!marks, DelTyped, DelType, PlanType,
        DiskTyped, RowTyped, FoldersTyped, DelTypes
  <2>3. DirsInv' /\ IdInv'
    BY <1>0, <1>4, Layout DEF Del!Forget, Del!library, Del!marks, DirsInv, IdInv, DiskTyped, RowTyped,
        Del!Here, FoldersTyped, DelTypes
  <2>4. ShapeInv' /\ ChoiceInv' /\ AbsentInv'
    BY <1>0, <1>4, Layout DEF Del!Forget, Del!NoDel, Del!library, Del!marks, ShapeInv, ChoiceInv, AbsentInv,
        Alike, DelTyped, DelType, DiskTyped, DirsInv, Del!Absent, Del!Below, Del!Here, DelTypes
  <2>5. PurgeInv'
    BY <1>0, <1>4, Layout DEF Del!Forget, Del!NoDel, Del!library, Del!marks, PurgeInv, Doomed, DelTyped,
        DelType, RowTyped, ShapeInv, IdInv, AbsentInv, FoldersTyped, DelTypes
  <2>6. FoldersInv'
    BY <1>0, <1>4, Layout DEF Del!Forget, Del!NoDel, Del!library, Del!marks, FoldersInv, FoldersHold,
        FoldersTyped, RowTyped, Del!Seen, DelTypes
  <2>. QED BY <2>1, <2>2, <2>3, <2>4, <2>5, <2>6 DEF DeletionInv, DeletingInv, DelTypes
<1>. QED BY <1>1, <1>2, <1>3, <1>4

-----------------------------------------------------------------------------
(* The lists                                                               *)

ShelfTyped == shelf \in [Entry -> Lists!AssetRow] /\ tainted \subseteq Entry
HashingTyped == /\ hashing \in [id : Entry \cup {0}, content : Nat]
                /\ hashing = Lists!NoFile \/ hashing.id \in Entry
\* A stored hash is that of the file, unless the row changed while it was made.
HashInv == \A i \in Entry : \/ shelf[i].hash \in {Lists!NULL, shelf[i].content}
                            \/ i \in tainted
ViewTyped == view \in Lists!View \cup {Lists!NoView, Lists!Unseen} /\ changes \in 0..MaxChanges
ListsInv == /\ focus = "browsing" => ShelfTyped /\ HashingTyped /\ HashInv /\ ViewTyped
            /\ focus # "browsing" => view = Lists!NoView

-----------------------------------------------------------------------------
(* Sort keys                                                               *)

LEMMA Least == ASSUME NEW S \in SUBSET Nat, S # {} PROVE \E n \in S : \A m \in S : n <= m
<1>1. IsWellFoundedOn(OpToRel(<, Nat), Nat) BY NatLessThanWellFounded
<1>2. PICK n \in S : \A m \in S : <<m, n>> \notin OpToRel(<, Nat) BY <1>1, WFMin
<1>3. ASSUME NEW m \in S PROVE n <= m
  <2>1. m \in Nat /\ n \in Nat OBVIOUS
  <2>2. ~(m < n) BY <1>2, <2>1 DEF OpToRel
  <2>. QED BY <2>1, <2>2
<1>. QED BY <1>3

-----------------------------------------------------------------------------
\* Sort keys of one list have one length.
KeyOf(l) == {s \in Seq(Int) : Len(s) = l}
Agree(a, b, n) == \A m \in 1..n : a[m] = b[m]

LEMMA LessIs ==
  ASSUME NEW l \in Nat, NEW a \in KeyOf(l), NEW b \in KeyOf(l)
  PROVE  /\ Lists!Less(a, b) <=> \E n \in 1..l : a[n] < b[n] /\ Agree(a, b, n-1)
         /\ \A n \in 1..l : a[n] \in Int /\ b[n] \in Int
<1>1. Len(a) = l /\ a \in [1..l -> Int] /\ b \in [1..l -> Int] BY DEF KeyOf
<1>2. \A n \in 1..l : a[n] \in Int /\ b[n] \in Int BY <1>1
<1>. QED BY <1>1, <1>2 DEF Lists!Less, Agree

LEMMA LessIrreflexive == ASSUME NEW l \in Nat, NEW a \in KeyOf(l) PROVE ~Lists!Less(a, a)
BY LessIs

LEMMA LessTransitive ==
  ASSUME NEW l \in Nat, NEW a \in KeyOf(l), NEW b \in KeyOf(l), NEW c \in KeyOf(l),
         Lists!Less(a, b), Lists!Less(b, c)
  PROVE  Lists!Less(a, c)
<1>1. PICK n \in 1..l : a[n] < b[n] /\ Agree(a, b, n-1) BY LessIs
<1>2. PICK k \in 1..l : b[k] < c[k] /\ Agree(b, c, k-1) BY LessIs
<1>3. \A m \in 1..l : a[m] \in Int /\ b[m] \in Int /\ c[m] \in Int BY LessIs
<1>4. CASE n <= k
  <2>1. a[n] < c[n] BY <1>1, <1>2, <1>3, <1>4 DEF Agree
  <2>2. Agree(a, c, n-1) BY <1>1, <1>2, <1>4 DEF Agree
  <2>. QED BY <2>1, <2>2, LessIs
<1>5. CASE k < n
  <2>1. a[k] < c[k] BY <1>1, <1>2, <1>3, <1>5 DEF Agree
  <2>2. Agree(a, c, k-1) BY <1>1, <1>2, <1>5 DEF Agree
  <2>. QED BY <2>1, <2>2, LessIs
<1>. QED BY <1>4, <1>5

LEMMA LessTotal ==
  ASSUME NEW l \in Nat, NEW a \in KeyOf(l), NEW b \in KeyOf(l), NEW n \in 1..l, a[n] # b[n]
  PROVE  Lists!Less(a, b) \/ Lists!Less(b, a)
<1>. DEFINE D == {m \in 1..l : a[m] # b[m]}
<1>1. PICK d \in D : \A m \in D : d <= m
  <2>1. D \in SUBSET Nat /\ D # {} OBVIOUS
  <2>. QED BY <2>1, Least
<1>2. Agree(a, b, d-1) /\ Agree(b, a, d-1) BY <1>1 DEF Agree
<1>3. a[d] \in Int /\ b[d] \in Int BY LessIs
<1>4. a[d] < b[d] \/ b[d] < a[d] BY <1>3
<1>. QED BY <1>2, <1>4, LessIs

\* What stands between two keys agrees with them where they agree.
LEMMA LessBetween ==
  ASSUME NEW l \in Nat, NEW a \in KeyOf(l), NEW b \in KeyOf(l), NEW c \in KeyOf(l),
         Lists!Less(a, b), Lists!Less(b, c), NEW p \in 0..l, Agree(a, c, p)
  PROVE  Agree(a, b, p)
<1>1. PICK n \in 1..l : a[n] < b[n] /\ Agree(a, b, n-1) BY LessIs
<1>2. PICK k \in 1..l : b[k] < c[k] /\ Agree(b, c, k-1) BY LessIs
<1>3. \A m \in 1..l : a[m] \in Int /\ b[m] \in Int /\ c[m] \in Int BY LessIs
<1>4. p < n
  <2>1. SUFFICES ASSUME n <= p PROVE FALSE BY <1>1
  <2>2. a[n] = c[n] BY <2>1 DEF Agree
  <2>3. CASE n <= k
    BY <1>1, <1>2, <1>3, <2>2, <2>3 DEF Agree
  <2>4. CASE k < n
    <3>1. a[k] = b[k] /\ a[k] = c[k] BY <1>1, <2>1, <2>4 DEF Agree
    <3>. QED BY <1>2, <1>3, <3>1
  <2>. QED BY <2>3, <2>4
<1>. QED BY <1>1, <1>4 DEF Agree

-----------------------------------------------------------------------------
\* before[i] are the members of S that come before i in a strict total order.
Chain(S, before) ==
    /\ before \in [S -> SUBSET S]
    /\ \A i \in S : i \notin before[i]
    /\ \A i, j \in S : i # j => i \in before[j] \/ j \in before[i]
    /\ \A i, j \in S : i \in before[j] => before[i] \subseteq before[j]

LEMMA RankGrows ==
  ASSUME NEW S, IsFiniteSet(S), NEW before, Chain(S, before), NEW i \in S, NEW j \in S, i \in before[j]
  PROVE  Cardinality(before[i]) < Cardinality(before[j])
<1>1. before[i] \in SUBSET before[j] /\ before[i] # before[j] BY DEF Chain
<1>2. IsFiniteSet(before[j]) BY FS_Subset DEF Chain
<1>3. Cardinality(before[i]) <= Cardinality(before[j]) /\ Cardinality(before[i]) # Cardinality(before[j])
      /\ IsFiniteSet(before[i])
  BY <1>1, <1>2, FS_Subset
<1>4. Cardinality(before[i]) \in Nat /\ Cardinality(before[j]) \in Nat BY <1>2, <1>3, FS_CardinalityType
<1>. QED BY <1>3, <1>4

LEMMA Ranks ==
  ASSUME NEW S, IsFiniteSet(S), NEW before, Chain(S, before)
  PROVE  /\ Cardinality(S) \in Nat
         /\ \A i \in S : Cardinality(before[i]) \in 0..Cardinality(S)-1
         /\ \A i, j \in S : i \in before[j] <=> Cardinality(before[i]) < Cardinality(before[j])
         /\ \A i, j \in S : Cardinality(before[i]) = Cardinality(before[j]) => i = j
         /\ \A n \in 0..Cardinality(S)-1 : \E i \in S : Cardinality(before[i]) = n
<1>. DEFINE c == Cardinality(S)
            rank(i) == Cardinality(before[i])
<1>1. c \in Nat BY FS_CardinalityType
<1>2. ASSUME NEW i \in S PROVE rank(i) \in 0..c-1
  <2>1. before[i] \in SUBSET S /\ before[i] # S BY DEF Chain
  <2>2. IsFiniteSet(before[i]) /\ rank(i) <= c /\ rank(i) # c BY <2>1, FS_Subset
  <2>3. rank(i) \in Nat BY <2>2, FS_CardinalityType
  <2>. HIDE DEF c, rank
  <2>. QED BY <1>1, <2>2, <2>3
<1>3. ASSUME NEW i \in S, NEW j \in S, i \in before[j] PROVE rank(i) < rank(j)
  BY <1>3, RankGrows
<1>4. \A i, j \in S : i # j => i \in before[j] \/ j \in before[i] BY DEF Chain
<1>5. \A i, j \in S : rank(i) = rank(j) => i = j
  <2>. HIDE DEF c, rank
  <2>1. \A i \in S : rank(i) \in Int BY <1>1, <1>2
  <2>. QED BY <1>3, <1>4, <2>1
<1>6. \A i, j \in S : i \in before[j] <=> rank(i) < rank(j)
  <2>. HIDE DEF c, rank
  <2>1. \A i \in S : rank(i) \in Int BY <1>1, <1>2
  <2>. QED BY <1>3, <1>4, <2>1
<1>7. \A n \in 0..c-1 : \E i \in S : rank(i) = n
  <2>. DEFINE r == [i \in S |-> rank(i)]
  <2>1. r \in Surjection(S, Range(r)) /\ r \in [S -> Range(r)]
    BY DEF Surjection, Range
  <2>2. Range(r) \in SUBSET (0..c-1) BY <1>2 DEF Range
  <2>3. IsFiniteSet(0..c-1) /\ Cardinality(0..c-1) = c
    <3>1. 0 \in Int /\ c-1 \in Int /\ (0 > c-1 => c = 0) /\ c-1-0+1 = c BY <1>1
    <3>. HIDE DEF c
    <3>. QED BY <3>1, FS_Interval
  <2>4. r \in Bijection(S, Range(r))
    <3>1. \A i, j \in S : r[i] = r[j] => i = j BY <1>5
    <3>. QED BY <2>1, <3>1 DEF Bijection, Injection, IsInjective
  <2>5. Cardinality(Range(r)) = c BY <2>4, FS_Bijection DEF ExistsBijection
  <2>6. Range(r) = 0..c-1 BY <2>2, <2>3, <2>5, FS_Subset
  <2>. QED BY <2>6 DEF Range
<1>. QED BY <1>1, <1>2, <1>5, <1>6, <1>7
-----------------------------------------------------------------------------
\* The instance's name for the library's operator.
LEMMA ListCardinality == \A S : Lists!Cardinality(S) = Cardinality(S)
BY Zenon DEF Lists!Cardinality, Cardinality

\* A list of S in the order of before.
InOrder(S, before, list) ==
    /\ list \in Seq(S) /\ Len(list) = Cardinality(S)
    /\ \A n \in 1..Len(list) : Cardinality(before[list[n]]) = n - 1

\* The orders of lists are total, so that a list is one by its ranks.
LEMMA OrderedList ==
  ASSUME NEW S, IsFiniteSet(S), NEW key, NEW before, Chain(S, before),
         \A i \in S : before[i] = {j \in S : Lists!Less(key[j], key[i])}
  PROVE  InOrder(S, before, Lists!Ordered(S, key))
<1>. DEFINE c == Cardinality(S)
            numbered == Lists!Numbered(S, key)
            list == Lists!Ordered(S, key)
            rank(i) == Cardinality(before[i])
<1>1. /\ c \in Nat /\ \A i \in S : rank(i) \in 0..c-1
      /\ \A n \in 0..c-1 : \E i \in S : rank(i) = n
  BY Ranks
<1>2. numbered = {<<rank(i) + 1, i>> : i \in S}
  BY ListCardinality DEF Lists!Numbered
<1>3. list = [n \in 1..c |-> CHOOSE i \in S : <<n, i>> \in numbered]
  BY ListCardinality DEF Lists!Ordered
<1>. HIDE DEF c, numbered, list, rank
<1>4. ASSUME NEW n \in 1..c PROVE list[n] \in S /\ rank(list[n]) = n - 1
  <2>1. PICK i \in S : rank(i) = n - 1
    <3>1. n - 1 \in 0..c-1 BY <1>1
    <3>. QED BY <1>1, <3>1
  <2>2. <<n, i>> \in numbered
    <3>1. rank(i) + 1 = n BY <1>1, <2>1
    <3>. QED BY <1>2, <3>1
  <2>3. list[n] \in S /\ <<n, list[n]>> \in numbered BY <1>3, <2>2
  <2>4. PICK k \in S : <<n, list[n]>> = <<rank(k) + 1, k>> BY <1>2, <2>3
  <2>5. list[n] = k /\ rank(k) + 1 = n BY <2>4
  <2>6. rank(k) \in Int /\ n \in Int BY <1>1
  <2>. QED BY <2>5, <2>6
<1>5. list \in Seq(S) /\ Len(list) = c
  <2>1. list \in [1..c -> S] BY <1>3, <1>4
  <2>. QED BY <1>1, <2>1
<1>. QED BY <1>4, <1>5 DEF InOrder, c, list, rank
LEMMA OrderFacts ==
  ASSUME NEW S, IsFiniteSet(S), NEW before, Chain(S, before), NEW list, InOrder(S, before, list)
  PROVE  /\ list \in Seq(S) /\ Len(list) \in Nat /\ DOMAIN list = 1..Len(list)
         /\ \A n \in 1..Len(list) : list[n] \in S
         /\ \A i \in S : \E n \in 1..Len(list) : list[n] = i
         /\ \A m, n \in 1..Len(list) : list[m] = list[n] => m = n
         /\ \A m, n \in 1..Len(list) : list[m] \in before[list[n]] <=> m < n
<1>. DEFINE c == Cardinality(S)
            rank(i) == Cardinality(before[i])
<1>1. /\ c \in Nat /\ \A i \in S : rank(i) \in 0..c-1
      /\ \A i, j \in S : i \in before[j] <=> rank(i) < rank(j)
      /\ \A i, j \in S : rank(i) = rank(j) => i = j
  BY Ranks
<1>2. list \in Seq(S) /\ Len(list) = c /\ \A n \in 1..c : rank(list[n]) = n - 1 BY DEF InOrder
<1>. HIDE DEF c, rank
<1>3. \A n \in 1..c : list[n] \in S BY <1>1, <1>2
<1>4. ASSUME NEW i \in S PROVE \E n \in 1..c : list[n] = i
  <2>1. PICK n \in 1..c : n = rank(i) + 1 BY <1>1
  <2>2. list[n] \in S /\ rank(list[n]) = n - 1 BY <1>2, <1>3
  <2>3. rank(list[n]) = rank(i) BY <1>1, <2>1, <2>2
  <2>. QED BY <1>1, <2>2, <2>3
<1>5. \A m, n \in 1..c : list[m] = list[n] => m = n BY <1>1, <1>2
<1>6. ASSUME NEW m \in 1..c, NEW n \in 1..c PROVE list[m] \in before[list[n]] <=> m < n
  <2>1. list[m] \in before[list[n]] <=> rank(list[m]) < rank(list[n]) BY <1>1, <1>3
  <2>2. rank(list[m]) = m - 1 /\ rank(list[n]) = n - 1 /\ m \in Int /\ n \in Int BY <1>1, <1>2
  <2>. QED BY <2>1, <2>2
<1>. QED BY <1>1, <1>2, <1>3, <1>4, <1>5, <1>6

\* A sequence that runs through S in its order is the list of S.
LEMMA SortedInOrder ==
  ASSUME NEW S, NEW before, NEW list \in Seq(S),
         \A i \in S : before[i] \in SUBSET S /\ \E n \in 1..Len(list) : list[n] = i,
         \A m, n \in 1..Len(list) : list[m] = list[n] => m = n,
         \A m, n \in 1..Len(list) : list[m] \in before[list[n]] <=> m < n
  PROVE  InOrder(S, before, list)
<1>. DEFINE len == Len(list)
<1>1. len \in Nat /\ list \in [1..len -> S] /\ \A n \in 1..len : list[n] \in S OBVIOUS
<1>. HIDE DEF len
<1>2. ASSUME NEW T \in SUBSET S, NEW k \in 0..len, T = {list[n] : n \in 1..k} PROVE Cardinality(T) = k
  <2>. DEFINE f == [n \in 1..k |-> list[n]]
  <2>1. f \in Bijection(1..k, T)
    <3>1. \A n \in 1..k : n \in 1..len /\ f[n] \in T BY <1>1, <1>2
    <3>2. \A m, n \in 1..k : f[m] = f[n] => m = n BY <3>1 DEF len
    <3>3. \A t \in T : \E n \in 1..k : f[n] = t BY <1>2
    <3>4. f \in [1..k -> T] BY <3>1
    <3>. HIDE DEF f
    <3>. QED BY <3>2, <3>3, <3>4 DEF Bijection, Injection, Surjection, IsInjective
  <2>2. IsFiniteSet(1..k) /\ Cardinality(1..k) = k
    <3>1. k \in Int /\ 1 \in Int /\ (1 > k => k = 0) /\ k - 1 + 1 = k BY <1>1
    <3>. QED BY <3>1, FS_Interval
  <2>. QED BY <2>1, <2>2, FS_Bijection DEF ExistsBijection
<1>3. Cardinality(S) = len
  <2>1. S = {list[n] : n \in 1..len} BY <1>1 DEF len
  <2>. QED BY <1>1, <1>2, <2>1
<1>4. ASSUME NEW n \in 1..len PROVE Cardinality(before[list[n]]) = n - 1
  <2>1. before[list[n]] \in SUBSET S BY <1>1
  <2>2. before[list[n]] = {list[m] : m \in 1..n-1}
    <3>1. ASSUME NEW i \in before[list[n]] PROVE i \in {list[m] : m \in 1..n-1}
      <4>1. PICK m \in 1..len : list[m] = i BY <2>1 DEF len
      <4>2. m < n BY <4>1 DEF len
      <4>3. m \in 1..n-1 BY <1>1, <4>2
      <4>. QED BY <4>1, <4>3
    <3>2. ASSUME NEW m \in 1..n-1 PROVE list[m] \in before[list[n]]
      <4>1. m \in 1..len /\ m < n BY <1>1
      <4>. QED BY <4>1 DEF len
    <3>. QED BY <3>1, <3>2
  <2>3. n - 1 \in 0..len BY <1>1
  <2>. QED BY <1>2, <2>1, <2>2, <2>3
<1>. QED BY <1>3, <1>4 DEF InOrder, len

LEMMA OneList ==
  ASSUME NEW S, IsFiniteSet(S), NEW before, Chain(S, before),
         NEW a, InOrder(S, before, a), NEW b, InOrder(S, before, b)
  PROVE  a = b
<1>1. \A i, j \in S : Cardinality(before[i]) = Cardinality(before[j]) => i = j BY Ranks
<1>2. /\ a \in Seq(S) /\ b \in Seq(S) /\ Len(a) = Len(b)
      /\ \A n \in 1..Len(a) : Cardinality(before[a[n]]) = n - 1 /\ Cardinality(before[b[n]]) = n - 1
  BY DEF InOrder
<1>3. \A n \in 1..Len(a) : a[n] \in S /\ b[n] \in S BY <1>2
<1>4. \A n \in 1..Len(a) : a[n] = b[n] BY <1>1, <1>2, <1>3
<1>. QED BY <1>2, <1>4

LEMMA NumberInList ==
  ASSUME NEW S, IsFiniteSet(S), NEW before, Chain(S, before), NEW list, InOrder(S, before, list),
         NEW n \in 1..Len(list)
  PROVE  Lists!Number(list, list[n]) = n
<1>1. DOMAIN list = 1..Len(list) /\ \A m \in 1..Len(list) : list[m] = list[n] => m = n BY OrderFacts
<1>. QED BY <1>1 DEF Lists!Number

\* The rest of a list and its beginning backwards are lists themselves.
LEMMA ListAfter ==
  ASSUME NEW S, IsFiniteSet(S), NEW before, Chain(S, before), NEW list, InOrder(S, before, list),
         NEW n \in 1..Len(list), NEW T, T = {j \in S : list[n] \in before[j]},
         NEW beforeT, \A j \in T : beforeT[j] = {k \in T : k \in before[j]}
  PROVE  InOrder(T, beforeT, SubSeq(list, n + 1, Len(list)))
<1>. DEFINE len == Len(list)
            rest == SubSeq(list, n + 1, Len(list))
<1>1. /\ list \in Seq(S) /\ len \in Nat
      /\ \A m \in 1..len : list[m] \in S
      /\ \A i \in S : \E m \in 1..len : list[m] = i
      /\ \A k, m \in 1..len : list[k] = list[m] => k = m
      /\ \A k, m \in 1..len : list[k] \in before[list[m]] <=> k < m
  BY OrderFacts
<1>2. n \in 1..len OBVIOUS
<1>3. /\ Len(rest) = len - n /\ rest \in Seq(S)
      /\ \A m \in 1..Len(rest) : rest[m] = list[n + m]
  BY <1>1
<1>. HIDE DEF len, rest
<1>4. \A m \in 1..Len(rest) : n + m \in 1..len BY <1>1, <1>2, <1>3
<1>5. \A m \in 1..Len(rest) : rest[m] \in T
  <2>1. ASSUME NEW m \in 1..Len(rest) PROVE list[n] \in before[list[n + m]] /\ list[n + m] \in S
    <3>1. n < n + m BY <1>1, <1>2, <1>3
    <3>. QED BY <1>1, <1>2, <1>4, <3>1
  <2>. QED BY <1>3, <2>1
<1>6. rest \in Seq(T)
  <2>1. Len(rest) \in Nat /\ rest = [m \in 1..Len(rest) |-> rest[m]] BY <1>3
  <2>. QED BY <1>5, <2>1
<1>7. ASSUME NEW i \in T PROVE beforeT[i] \in SUBSET T /\ \E m \in 1..Len(rest) : rest[m] = i
  <2>1. PICK m \in 1..len : list[m] = i BY <1>1
  <2>2. n < m BY <1>1, <1>2, <2>1
  <2>3. m - n \in 1..Len(rest) /\ n + (m - n) = m BY <1>1, <1>2, <1>3, <2>2
  <2>4. rest[m - n] = i BY <1>3, <2>1, <2>3
  <2>. QED BY <2>3, <2>4
<1>8. ASSUME NEW k \in 1..Len(rest), NEW m \in 1..Len(rest), rest[k] = rest[m] PROVE k = m
  <2>1. list[n + k] = list[n + m] BY <1>3, <1>8
  <2>2. n + k \in 1..len /\ n + m \in 1..len BY <1>4
  <2>3. n + k = n + m BY <1>1, <2>1, <2>2
  <2>. QED BY <1>1, <1>2, <1>3, <2>3
<1>9. ASSUME NEW k \in 1..Len(rest), NEW m \in 1..Len(rest)
      PROVE  rest[k] \in beforeT[rest[m]] <=> k < m
  <2>1. rest[k] \in beforeT[rest[m]] <=> list[n + k] \in before[list[n + m]] BY <1>3, <1>5
  <2>2. list[n + k] \in before[list[n + m]] <=> n + k < n + m BY <1>1, <1>4
  <2>. QED BY <1>1, <1>2, <1>3, <2>1, <2>2
<1>10. InOrder(T, beforeT, rest) BY <1>6, <1>7, <1>8, <1>9, SortedInOrder
<1>. QED BY <1>10 DEF rest

LEMMA SequenceOver == ASSUME NEW S, NEW T, NEW s \in Seq(S), \A k \in 1..Len(s) : s[k] \in T PROVE s \in Seq(T)
OBVIOUS

Opposite(T, before, beforeT) ==
    \A j \in T : beforeT[j] \in SUBSET T /\ \A k \in T : k \in beforeT[j] <=> j \in before[k]
Backwards(S, list, n, back) ==
    back \in Seq(S) /\ Len(back) = n - 1 /\ \A k \in 1..n-1 : back[k] = list[n - k]
LEMMA ListBefore ==
  ASSUME NEW S, IsFiniteSet(S), NEW before, Chain(S, before), NEW list, InOrder(S, before, list),
         NEW n \in 1..Len(list), NEW T, T = before[list[n]],
         NEW beforeT, Opposite(T, before, beforeT), NEW back, Backwards(S, list, n, back)
  PROVE  InOrder(T, beforeT, back)
<1>. DEFINE len == Len(list)
<1>1. /\ list \in Seq(S) /\ len \in Nat
      /\ \A m \in 1..len : list[m] \in S
      /\ \A i \in S : \E m \in 1..len : list[m] = i
      /\ \A k, m \in 1..len : list[k] = list[m] => k = m
      /\ \A k, m \in 1..len : list[k] \in before[list[m]] <=> k < m
  BY OrderFacts
<1>2. n \in 1..len OBVIOUS
<1>3. back \in Seq(S) /\ Len(back) = n - 1 /\ \A k \in 1..n-1 : back[k] = list[n - k] BY DEF Backwards
<1>a. \A j \in T : beforeT[j] \in SUBSET T /\ \A e \in T : e \in beforeT[j] <=> j \in before[e] BY DEF Opposite
<1>. HIDE DEF len
<1>4. \A k \in 1..n-1 : n - k \in 1..len /\ n - k < n BY <1>1, <1>2
<1>5. \A k \in 1..n-1 : back[k] \in T
  <2>1. ASSUME NEW k \in 1..n-1 PROVE list[n - k] \in before[list[n]] BY <1>1, <1>2, <1>4
  <2>. QED BY <1>3, <2>1
<1>6. back \in Seq(T) /\ Len(back) = n - 1
  <2>3. \A k \in 1..Len(back) : back[k] \in T BY <1>3, <1>5
  <2>. QED BY <1>3, <2>3, SequenceOver
<1>7. ASSUME NEW i \in T PROVE beforeT[i] \in SUBSET T /\ \E k \in 1..Len(back) : back[k] = i
  <2>0. i \in S BY <1>1, <1>2 DEF Chain
  <2>1. PICK m \in 1..len : list[m] = i BY <1>1, <2>0
  <2>2. m < n BY <1>1, <1>2, <2>1
  <2>3. n - m \in 1..n-1 /\ n - (n - m) = m BY <1>1, <1>2, <2>2
  <2>4. back[n - m] = i BY <1>3, <2>1, <2>3
  <2>. QED BY <1>6, <1>a, <2>3, <2>4
<1>8. ASSUME NEW k \in 1..Len(back), NEW m \in 1..Len(back), back[k] = back[m] PROVE k = m
  <2>0. k \in 1..n-1 /\ m \in 1..n-1 BY <1>6
  <2>1. n - k = n - m
    <3>1. list[n - k] = list[n - m] BY <1>3, <1>8, <2>0
    <3>2. n - k \in 1..len /\ n - m \in 1..len BY <1>4, <2>0
    <3>. QED BY <1>1, <3>1, <3>2
  <2>. QED BY <1>1, <1>2, <2>0, <2>1
<1>9. ASSUME NEW k \in 1..Len(back), NEW m \in 1..Len(back)
      PROVE  back[k] \in beforeT[back[m]] <=> k < m
  <2>0. k \in 1..n-1 /\ m \in 1..n-1 BY <1>6
  <2>1. back[k] \in beforeT[back[m]] <=> list[n - m] \in before[list[n - k]] BY <1>3, <1>5, <1>a, <2>0
  <2>2. list[n - m] \in before[list[n - k]] <=> n - m < n - k BY <1>1, <1>4, <2>0
  <2>. QED BY <1>1, <1>2, <2>0, <2>1, <2>2
<1>. QED BY <1>6, <1>7, <1>8, <1>9, SortedInOrder
-----------------------------------------------------------------------------
BeforeBy(S, key) == [i \in S |-> {j \in S : Lists!Less(key[j], key[i])}]

\* Keys that differ in some column make a total order, and a list.
LEMMA KeyOrder ==
  ASSUME NEW S, IsFiniteSet(S), NEW l \in Nat, NEW key, \A i \in S : key[i] \in KeyOf(l), NEW n \in 1..l,
         \A i, j \in S : i # j => key[i][n] # key[j][n]
  PROVE  Chain(S, BeforeBy(S, key)) /\ InOrder(S, BeforeBy(S, key), Lists!Ordered(S, key))
<1>. DEFINE before == BeforeBy(S, key)
<1>1. \A i \in S : before[i] = {j \in S : Lists!Less(key[j], key[i])} BY DEF BeforeBy
<1>2. before \in [S -> SUBSET S] BY DEF BeforeBy
<1>. HIDE DEF before
<1>3. \A i \in S : i \notin before[i] BY <1>1, LessIrreflexive
<1>4. \A i, j \in S : i # j => i \in before[j] \/ j \in before[i] BY <1>1, LessTotal
<1>5. ASSUME NEW i \in S, NEW j \in S, i \in before[j] PROVE before[i] \subseteq before[j]
  <2>1. SUFFICES ASSUME NEW k \in S, k \in before[i] PROVE k \in before[j] BY <1>1
  <2>2. Lists!Less(key[k], key[i]) /\ Lists!Less(key[i], key[j]) BY <1>1, <1>5, <2>1
  <2>. QED BY <1>1, <2>2, LessTransitive
<1>6. Chain(S, before) BY <1>2, <1>3, <1>4, <1>5 DEF Chain
<1>. QED BY <1>1, <1>6, OrderedList DEF before

LEMMA ViewParts ==
  ASSUME NEW v \in Lists!View
  PROVE  /\ v.kind \in {"library", "folder", "hidden", "duplicates"} /\ v.narrow \in {"none", "fast", "tags"}
         /\ v.col \in {"time", "name", "size", "length"} /\ v.up \in BOOLEAN
         /\ v.group \in {"", "folder", "day", "size", "letter"}
         /\ v = [kind |-> v.kind, narrow |-> v.narrow, col |-> v.col, up |-> v.up, group |-> v.group]
         /\ \A up : [v EXCEPT !.up = up] = [kind |-> v.kind, narrow |-> v.narrow, col |-> v.col, up |-> up, group |-> v.group]
<1>1. PICK l \in Looks, s \in Lists!Sorts, g \in Lists!Groups :
        v = [kind |-> l.kind, narrow |-> l.narrow, col |-> s.col, up |-> s.up, group |-> g]
  BY DEF Lists!View
<1>2. l.kind \in {"library", "folder", "hidden", "duplicates"} /\ l.narrow \in {"none", "fast", "tags"}
  BY ListsAssumption DEF ListsAssumption
<1>3. s.col \in {"time", "name", "size", "length"} /\ s.up \in BOOLEAN BY DEF Lists!Sorts
<1>4. g \in {"", "folder", "day", "size", "letter"} BY DEF Lists!Groups
<1>5. v.kind = l.kind /\ v.narrow = l.narrow /\ v.col = s.col /\ v.up = s.up /\ v.group = g BY <1>1
<1>6. ASSUME NEW up
      PROVE  /\ v = [kind |-> v.kind, narrow |-> v.narrow, col |-> v.col, up |-> v.up, group |-> v.group]
             /\ [v EXCEPT !.up = up] = [kind |-> v.kind, narrow |-> v.narrow, col |-> v.col, up |-> up, group |-> v.group]
  <2>. DEFINE a == l.kind
              b == l.narrow
              c == s.col
              d == s.up
  <2>. HIDE DEF a, b, c, d
  <2>1. v = [kind |-> a, narrow |-> b, col |-> c, up |-> d, group |-> g] BY <1>1 DEF a, b, c, d
  <2>. QED BY <2>1
<1>. QED BY <1>2, <1>3, <1>4, <1>5, <1>6

SortLength(v) == IF v.col \in {"name", "length"} THEN 3 ELSE 2
SignedInt == \A up \in BOOLEAN, x \in Int : Lists!Signed(up, x) \in Int /\ Lists!Signed(~up, x) = -Lists!Signed(up, x)
             /\ \A y \in Int : Lists!Signed(up, x) = Lists!Signed(up, y) => x = y
LEMMA SignedFacts == SignedInt BY DEF SignedInt, Lists!Signed

LEMMA Rowed ==
  ASSUME ShelfTyped, NEW i \in Entry
  PROVE  /\ i \in Int /\ shelf[i].time \in Nat /\ shelf[i].size \in Nat /\ shelf[i].length \in Nat
         /\ shelf[i].hash \in Nat /\ shelf[i]["time"] \in Nat /\ shelf[i]["size"] \in Nat
         /\ Name[i].key \in Nat /\ Name[i].low \in Nat /\ Name[i].letter \in Nat /\ DirOf[i] \in Nat
<1>1. shelf[i] \in Lists!AssetRow /\ i \in Nat BY MaintenanceAssumption DEF ShelfTyped, MaintenanceAssumption
<1>2. Name[i] \in [key : Nat, low : Nat, letter : Nat] /\ DirOf[i] \in Nat
  BY ListsAssumption DEF ListsAssumption
<1>. QED BY <1>1, <1>2 DEF Lists!AssetRow

LEMMA ThreeNumbers ==
  ASSUME NEW a \in Int, NEW b \in Int, NEW c \in Int
  PROVE  <<a, b, c>> \in KeyOf(3) /\ <<a, b, c>>[1] = a /\ <<a, b, c>>[2] = b /\ <<a, b, c>>[3] = c
BY DEF KeyOf

LEMMA TwoNumbers ==
  ASSUME NEW a \in Int, NEW b \in Int
  PROVE  <<a, b>> \in KeyOf(2) /\ <<a, b>>[1] = a /\ <<a, b>>[2] = b
BY DEF KeyOf

LEMMA NameKey ==
  ASSUME ShelfTyped, NEW i \in Entry, NEW up \in BOOLEAN
  PROVE  /\ Lists!Names(up, i) \in KeyOf(3)
         /\ Lists!Names(up, i)[1] = Lists!Signed(up, Name[i].key)
         /\ Lists!Names(up, i)[2] = Lists!Signed(up, Name[i].low)
         /\ Lists!Names(up, i)[3] = Lists!Signed(up, i)
<1>. DEFINE a == Lists!Signed(up, Name[i].key)
            b == Lists!Signed(up, Name[i].low)
            c == Lists!Signed(up, i)
<1>1. a \in Int /\ b \in Int /\ c \in Int BY Rowed, SignedFacts DEF SignedInt
<1>2. Lists!Names(up, i) = <<a, b, c>> BY DEF Lists!Names
<1>. HIDE DEF a, b, c
<1>3. <<a, b, c>> \in KeyOf(3) /\ <<a, b, c>>[1] = a /\ <<a, b, c>>[2] = b /\ <<a, b, c>>[3] = c BY <1>1, ThreeNumbers
<1>4. Lists!Names(up, i) \in KeyOf(3) /\ Lists!Names(up, i)[1] = a /\ Lists!Names(up, i)[2] = b /\ Lists!Names(up, i)[3] = c
  BY <1>2, <1>3
<1>. QED BY <1>4 DEF a, b, c

\* What a list is sorted by.
Sortable(v) == v.col \in {"time", "name", "size", "length"} /\ v.up \in BOOLEAN

\* The last column of a sort key is the id.
LEMMA SortKeyFacts ==
  ASSUME ShelfTyped, NEW v, Sortable(v), NEW i \in Entry
  PROVE  /\ SortLength(v) \in 2..3
         /\ Lists!SortKey(v, i) \in KeyOf(SortLength(v))
         /\ Lists!SortKey(v, i)[SortLength(v)] = Lists!Signed(v.up, i)
<1>0. v.col \in {"time", "name", "size", "length"} /\ v.up \in BOOLEAN BY Zenon DEF Sortable
<1>1. CASE v.col = "name"
  <2>1. Lists!SortKey(v, i) = Lists!Names(v.up, i) /\ SortLength(v) = 3 BY <1>1 DEF Lists!SortKey, SortLength
  <2>. QED BY <1>0, <2>1, NameKey
<1>2. CASE v.col = "length"
  <2>. DEFINE a == IF shelf[i].length = Lists!NULL THEN 1 ELSE 0
              b == Lists!Signed(v.up, shelf[i].length)
              c == Lists!Signed(v.up, i)
  <2>1. a \in Int /\ b \in Int /\ c \in Int BY <1>0, Rowed, SignedFacts DEF SignedInt
  <2>2. Lists!SortKey(v, i) = <<a, b, c>> /\ SortLength(v) = 3 BY <1>2 DEF Lists!SortKey, SortLength
  <2>. HIDE DEF a, b, c
  <2>3. Lists!SortKey(v, i) \in KeyOf(3) /\ Lists!SortKey(v, i)[3] = c BY <2>1, <2>2, ThreeNumbers
  <2>. QED BY <2>2, <2>3 DEF c
<1>3. CASE v.col \in {"time", "size"}
  <2>. DEFINE a == Lists!Signed(v.up, shelf[i][v.col])
              c == Lists!Signed(v.up, i)
  <2>1. a \in Int /\ c \in Int
    <3>1. shelf[i][v.col] \in Int /\ i \in Int BY <1>3, Rowed
    <3>. QED BY <1>0, <3>1, SignedFacts DEF SignedInt
  <2>2. Lists!SortKey(v, i) = <<a, c>> /\ SortLength(v) = 2 BY <1>3 DEF Lists!SortKey, SortLength
  <2>. HIDE DEF a, c
  <2>3. Lists!SortKey(v, i) \in KeyOf(2) /\ Lists!SortKey(v, i)[2] = c BY <2>1, <2>2, TwoNumbers
  <2>. QED BY <2>2, <2>3 DEF c
<1>. QED BY <1>0, <1>1, <1>2, <1>3
\* Ascending and descending lists run against each other, but for missing lengths.
LEMMA LessReversed ==
  ASSUME NEW l \in Nat, NEW a \in KeyOf(l), NEW b \in KeyOf(l), NEW ma \in KeyOf(l), NEW mb \in KeyOf(l),
         \A n \in 1..l : ma[n] = -a[n] /\ mb[n] = -b[n]
  PROVE  Lists!Less(ma, mb) <=> Lists!Less(b, a)
<1>1. \A n \in 1..l : a[n] \in Int /\ b[n] \in Int BY LessIs
<1>2. \A n \in 1..l : (ma[n] < mb[n] <=> b[n] < a[n]) /\ (ma[n] = mb[n] <=> b[n] = a[n]) BY <1>1
<1>3. \A n \in 1..l : Agree(ma, mb, n-1) <=> Agree(b, a, n-1)
  <2>1. ASSUME NEW n \in 1..l, NEW m \in 1..n-1 PROVE m \in 1..l OBVIOUS
  <2>. QED BY <1>2, <2>1 DEF Agree
<1>. QED BY <1>2, <1>3, LessIs

LEMMA SortKeyReversed ==
  ASSUME ShelfTyped, NEW v \in Lists!View, v.col # "length", NEW i \in Entry,
         NEW w, w = [v EXCEPT !.up = ~v.up]
  PROVE  /\ w.col = v.col /\ w.up = ~v.up /\ w.up \in BOOLEAN /\ SortLength(w) = SortLength(v)
         /\ \A n \in 1..SortLength(v) : Lists!SortKey(w, i)[n] = -Lists!SortKey(v, i)[n]
<1>0. v.up \in BOOLEAN /\ v.col \in {"time", "name", "size", "length"} BY ViewParts
<1>1. v.col \in {"time", "name", "size"} /\ v.up \in BOOLEAN /\ (~v.up) \in BOOLEAN BY <1>0
<1>2. w.col = v.col /\ w.up = ~v.up BY ViewParts
<1>6. w.up \in BOOLEAN BY <1>0, <1>2, Zenon
<1>3. SortLength(w) = SortLength(v) BY <1>2 DEF SortLength
<1>4. CASE v.col = "name"
  <2>1. /\ Lists!SortKey(v, i) = Lists!Names(v.up, i) /\ Lists!SortKey(w, i) = Lists!Names(~v.up, i)
        /\ SortLength(v) = 3
    BY <1>2, <1>4 DEF Lists!SortKey, SortLength
  <2>2. /\ Name[i].key \in Int /\ Name[i].low \in Int /\ i \in Int BY Rowed
  <2>3. \A n \in 1..3 : n = 1 \/ n = 2 \/ n = 3 OBVIOUS
  <2>4. \A n \in 1..3 : Lists!Names(~v.up, i)[n] = -Lists!Names(v.up, i)[n]
    <3>. DEFINE u == v.up
                m == ~v.up
    <3>1. /\ u \in BOOLEAN /\ m \in BOOLEAN
          /\ \A x \in Int : Lists!Signed(m, x) = -Lists!Signed(u, x)
      BY <1>1, SignedFacts DEF SignedInt
    <3>. HIDE DEF u, m
    <3>2. \A n \in 1..3 : Lists!Names(m, i)[n] = -Lists!Names(u, i)[n]
      BY <3>1, <2>2, <2>3, NameKey
    <3>. QED BY <3>2 DEF u, m
  <2>. QED BY <1>2, <1>3, <2>1, <2>4
<1>5. CASE v.col \in {"time", "size"}
  <2>. DEFINE x == shelf[i][v.col]
  <2>1. /\ Lists!SortKey(v, i) = <<Lists!Signed(v.up, x), Lists!Signed(v.up, i)>>
        /\ Lists!SortKey(w, i) = <<Lists!Signed(~v.up, x), Lists!Signed(~v.up, i)>>
        /\ SortLength(v) = 2
    BY <1>2, <1>5 DEF Lists!SortKey, SortLength
  <2>2. x \in Int /\ i \in Int BY <1>5, Rowed
  <2>3. \A n \in 1..2 : n = 1 \/ n = 2 OBVIOUS
  <2>. HIDE DEF x
  <2>4. /\ Lists!SortKey(v, i)[1] = Lists!Signed(v.up, x) /\ Lists!SortKey(v, i)[2] = Lists!Signed(v.up, i)
        /\ Lists!SortKey(w, i)[1] = Lists!Signed(~v.up, x) /\ Lists!SortKey(w, i)[2] = Lists!Signed(~v.up, i)
    BY <2>1
  <2>5. /\ Lists!Signed(~v.up, x) = -Lists!Signed(v.up, x) /\ Lists!Signed(~v.up, i) = -Lists!Signed(v.up, i)
    BY <1>1, <2>2, SignedFacts DEF SignedInt
  <2>6. \A n \in 1..2 : Lists!SortKey(w, i)[n] = -Lists!SortKey(v, i)[n] BY <2>3, <2>4, <2>5
  <2>. QED BY <1>2, <1>3, <2>1, <2>6
<1>. QED BY <1>1, <1>2, <1>3, <1>4, <1>5, <1>6

LEMMA ViewSortable == ASSUME NEW v \in Lists!View PROVE Sortable(v)
<1>1. v.col \in {"time", "name", "size", "length"} BY ViewParts
<1>2. v.up \in BOOLEAN BY ViewParts
<1>. QED BY <1>1, <1>2, Zenon DEF Sortable
LEMMA ReversedSortable ==
  ASSUME ShelfTyped, NEW v \in Lists!View, v.col # "length", NEW w, w = [v EXCEPT !.up = ~v.up]
  PROVE  Sortable(w)
<1>1. v.col \in {"time", "name", "size", "length"} BY ViewParts
<1>2. w.col = v.col BY SortKeyReversed
<1>3. w.up \in BOOLEAN BY SortKeyReversed
<1>. QED BY <1>1, <1>2, <1>3, Zenon DEF Sortable
LEMMA SortKeysReversed ==
  ASSUME ShelfTyped, NEW v \in Lists!View, v.col # "length", NEW i \in Entry, NEW j \in Entry,
         NEW w, w = [v EXCEPT !.up = ~v.up]
  PROVE  Lists!Less(Lists!SortKey(w, i), Lists!SortKey(w, j)) <=> Lists!Less(Lists!SortKey(v, j), Lists!SortKey(v, i))
<1>1. Sortable(v) /\ Sortable(w) BY ViewSortable, ReversedSortable
<1>2. SortLength(w) = SortLength(v) BY SortKeyReversed
<1>. DEFINE l == SortLength(v)
<1>3. /\ l \in Nat /\ Lists!SortKey(v, i) \in KeyOf(l) /\ Lists!SortKey(v, j) \in KeyOf(l)
      /\ Lists!SortKey(w, i) \in KeyOf(l) /\ Lists!SortKey(w, j) \in KeyOf(l)
  BY <1>1, <1>2, SortKeyFacts
<1>4. \A n \in 1..l : /\ Lists!SortKey(w, i)[n] = -Lists!SortKey(v, i)[n]
                      /\ Lists!SortKey(w, j)[n] = -Lists!SortKey(v, j)[n]
  BY SortKeyReversed
<1>. HIDE DEF l
<1>. QED BY <1>3, <1>4, LessReversed

\* Two columns, as those of the order of imports.
LEMMA LessOfTwo ==
  ASSUME NEW a \in Int, NEW b \in Int, NEW c \in Int, NEW d \in Int
  PROVE  Lists!Less(<<a, b>>, <<c, d>>) <=> a < c \/ (a = c /\ b < d)
<1>. DEFINE x == <<a, b>>
            y == <<c, d>>
<1>1. Lists!Less(x, y) <=> \E n \in 1..2 : x[n] < y[n] /\ \A m \in 1..n-1 : x[m] = y[m]
  BY DEF Lists!Less
<1>2. x[1] = a /\ x[2] = b /\ y[1] = c /\ y[2] = d OBVIOUS
<1>. HIDE DEF x, y
<1>3. (\A m \in 1..0 : x[m] = y[m]) /\ ((\A m \in 1..1 : x[m] = y[m]) <=> x[1] = y[1]) OBVIOUS
<1>4. (\E n \in 1..2 : x[n] < y[n] /\ \A m \in 1..n-1 : x[m] = y[m])
      <=> \/ x[1] < y[1] /\ \A m \in 1..0 : x[m] = y[m]
          \/ x[2] < y[2] /\ \A m \in 1..1 : x[m] = y[m]
  <2>1. \A n \in 1..2 : n = 1 \/ n = 2 OBVIOUS
  <2>2. 1 \in 1..2 /\ 2 \in 1..2 /\ 1-1 = 0 /\ 2-1 = 1 OBVIOUS
  <2>. QED BY <2>1, <2>2
<1>. QED BY <1>1, <1>2, <1>3, <1>4 DEF x, y

\* What the query of a side asks for is what comes later in that side's order.
LEMMA BeyondIsLater ==
  ASSUME ShelfTyped, NEW v, v.col \in {"time", "name", "size"}, NEW up \in BOOLEAN, v.up = up,
         NEW i \in Entry, NEW j \in Entry, NEW u, u.col = v.col
  PROVE  Lists!Beyond(u, i, j, up) <=> Lists!Less(Lists!SortKey(v, i), Lists!SortKey(v, j))
<1>1. CASE v.col = "name" BY <1>1 DEF Lists!Beyond, Lists!SortKey
<1>2. CASE v.col \in {"time", "size"}
  <2>. DEFINE x == shelf[i][v.col]
              y == shelf[j][v.col]
              sx == Lists!Signed(up, x)
              sy == Lists!Signed(up, y)
              si == Lists!Signed(up, i)
              sj == Lists!Signed(up, j)
  <2>1. x \in Int /\ y \in Int /\ i \in Int /\ j \in Int BY <1>2, Rowed
  <2>2. /\ Lists!SortKey(v, i) = <<sx, si>> /\ Lists!SortKey(v, j) = <<sy, sj>> BY <1>2 DEF Lists!SortKey
  <2>3. Lists!Beyond(u, i, j, up) <=> sy > sx \/ (y = x /\ sj > si) BY <1>2 DEF Lists!Beyond
  <2>. HIDE DEF x, y
  <2>4. /\ sx \in Int /\ sy \in Int /\ si \in Int /\ sj \in Int /\ (y = x <=> sy = sx)
    BY <2>1, SignedFacts DEF SignedInt
  <2>. HIDE DEF sx, sy, si, sj
  <2>5. Lists!Less(<<sx, si>>, <<sy, sj>>) <=> sx < sy \/ (sx = sy /\ si < sj) BY <2>4, LessOfTwo
  <2>. QED BY <2>2, <2>3, <2>4, <2>5
<1>. QED BY <1>1, <1>2

KeysOf(v, S) == [i \in S |-> Lists!SortKey(v, i)]

\* Keys whose last column is the id.
LEMMA KeyedList ==
  ASSUME ShelfTyped, NEW S \in SUBSET Entry, NEW key, NEW l \in Nat \ {0}, NEW up \in BOOLEAN,
         \A i \in S : key[i] \in KeyOf(l) /\ key[i][l] = Lists!Signed(up, i)
  PROVE  /\ IsFiniteSet(S)
         /\ Chain(S, BeforeBy(S, key))
         /\ InOrder(S, BeforeBy(S, key), Lists!Ordered(S, key))
<1>1. IsFiniteSet(S) BY ListsAssumption, FS_Subset DEF ListsAssumption
<1>2. \A i, j \in S : i # j => key[i][l] # key[j][l]
  <2>1. \A i \in S : i \in Int BY Rowed
  <2>. QED BY <2>1, SignedFacts DEF SignedInt
<1>. QED BY <1>1, <1>2, KeyOrder

LEMMA SortedList ==
  ASSUME ShelfTyped, NEW S \in SUBSET Entry, NEW v, Sortable(v)
  PROVE  /\ IsFiniteSet(S)
         /\ Chain(S, BeforeBy(S, KeysOf(v, S)))
         /\ InOrder(S, BeforeBy(S, KeysOf(v, S)), Lists!Ordered(S, KeysOf(v, S)))
<1>. DEFINE l == SortLength(v)
            key == KeysOf(v, S)
            up == v.up
<1>1. up \in BOOLEAN BY Zenon DEF Sortable
<1>2. l \in Nat \ {0}
  <2>1. l \in 2..3 BY DEF SortLength
  <2>. QED BY <2>1
<1>3. \A i \in S : key[i] \in KeyOf(l) /\ key[i][l] = Lists!Signed(up, i) BY SortKeyFacts DEF KeysOf
<1>. HIDE DEF l, key, up
<1>4. /\ IsFiniteSet(S) /\ Chain(S, BeforeBy(S, key)) /\ InOrder(S, BeforeBy(S, key), Lists!Ordered(S, key))
  BY <1>1, <1>2, <1>3, KeyedList
<1>. QED BY <1>4 DEF key

\* The neighbours found by comparing sort columns are the rows next in the list.
Following(v, S, around, n) ==
    /\ Lists!Keyset(v, S, around[n], FALSE) = Lists!FirstOnes(SubSeq(around, n + 1, Len(around)))
    /\ Lists!Keyset(v, S, around[n], TRUE) = Lists!FirstOnes([k \in 1..n-1 |-> around[n - k]])
LEMMA KeysetFollows ==
  ASSUME ShelfTyped, NEW S \in SUBSET Entry, NEW v \in Lists!View, v.col # "length",
         NEW around, around = Lists!Ordered(S, KeysOf(v, S)), NEW n \in 1..Len(around)
  PROVE  Following(v, S, around, n)
<1>. DEFINE i == around[n]
            before == BeforeBy(S, KeysOf(v, S))
            w == [v EXCEPT !.up = ~v.up]
            after == {j \in S : i \in before[j]}
<1>s. Sortable(v) /\ Sortable(w) BY ViewSortable, ReversedSortable
<1>1. /\ v.col \in {"time", "name", "size"} /\ v.up \in BOOLEAN /\ (~v.up) \in BOOLEAN
      /\ w.col = v.col /\ w.up = ~v.up /\ w.up \in BOOLEAN
      /\ [v EXCEPT !.up = v.up] = v
  <2>1. v.col \in {"time", "name", "size", "length"} /\ v.up \in BOOLEAN BY ViewParts
  <2>2. w.col = v.col /\ w.up = ~v.up /\ w.up \in BOOLEAN BY SortKeyReversed
  <2>3. [v EXCEPT !.up = v.up] = v
    <3>1. [v EXCEPT !.up = v.up] = [kind |-> v.kind, narrow |-> v.narrow, col |-> v.col, up |-> v.up, group |-> v.group]
      BY ViewParts
    <3>2. v = [kind |-> v.kind, narrow |-> v.narrow, col |-> v.col, up |-> v.up, group |-> v.group] BY ViewParts
    <3>. QED BY <3>1, <3>2, Zenon
  <2>. QED BY <2>1, <2>2, <2>3
<1>2. /\ IsFiniteSet(S) /\ Chain(S, before) /\ InOrder(S, before, around) BY <1>s, SortedList
<1>3. i \in S BY <1>2, OrderFacts
<1>. HIDE DEF i
<1>4. \A j, k \in S : j \in before[k] <=> Lists!Less(Lists!SortKey(v, j), Lists!SortKey(v, k))
  BY DEF BeforeBy, KeysOf
<1>5. \A j, k \in S : j \in before[k] <=> Lists!Less(Lists!SortKey(w, k), Lists!SortKey(w, j))
  <2>. SUFFICES ASSUME NEW j \in S, NEW k \in S
                PROVE  j \in before[k] <=> Lists!Less(Lists!SortKey(w, k), Lists!SortKey(w, j))
    OBVIOUS
  <2>. QED BY <1>1, <1>4, SortKeysReversed
<1>6. /\ after = {j \in S : Lists!Beyond(v, i, j, v.up)}
      /\ before[i] = {j \in S : Lists!Beyond(v, i, j, ~v.up)}
  <2>1. \A j \in S : Lists!Beyond(v, i, j, v.up) <=> Lists!Less(Lists!SortKey(v, i), Lists!SortKey(v, j))
    <3>. DEFINE up == v.up
    <3>1. v.col \in {"time", "name", "size"} /\ up \in BOOLEAN /\ v.up = up BY <1>1
    <3>. HIDE DEF up
    <3>2. \A j \in S : Lists!Beyond(v, i, j, up) <=> Lists!Less(Lists!SortKey(v, i), Lists!SortKey(v, j))
      BY <1>3, <3>1, BeyondIsLater
    <3>. QED BY <3>2 DEF up
  <2>2. \A j \in S : Lists!Beyond(v, i, j, ~v.up) <=> Lists!Less(Lists!SortKey(w, i), Lists!SortKey(w, j))
    <3>. DEFINE up == ~v.up
    <3>1. w.col \in {"time", "name", "size"} /\ up \in BOOLEAN /\ w.up = up /\ v.col = w.col BY <1>1
    <3>. HIDE DEF up, w
    <3>2. \A j \in S : Lists!Beyond(v, i, j, up) <=> Lists!Less(Lists!SortKey(w, i), Lists!SortKey(w, j))
      BY <1>3, <3>1, BeyondIsLater
    <3>. QED BY <3>2 DEF up
  <2>3. before[i] \subseteq S BY <1>3 DEF BeforeBy
  <2>. HIDE DEF before, w
  <2>. QED BY <1>3, <1>4, <1>5, <2>1, <2>2, <2>3
<1>. HIDE DEF before, w
<1>7. Lists!Keyset(v, S, i, FALSE) = Lists!FirstOnes(SubSeq(around, n + 1, Len(around)))
  <2>. DEFINE own == BeforeBy(after, KeysOf(v, after))
  <2>1. Lists!Keyset(v, S, i, FALSE) = Lists!FirstOnes(Lists!Ordered(after, KeysOf(v, after)))
    <3>1. (v.up # FALSE) = v.up
      <4>. DEFINE u == v.up
      <4>1. u \in BOOLEAN BY <1>1
      <4>. HIDE DEF u
      <4>2. (u # FALSE) = u BY <4>1
      <4>. QED BY <4>2 DEF u
    <3>2. Lists!Keyset(v, S, i, FALSE)
          = LET beyond == {j \in S : Lists!Beyond(v, i, j, v.up)}
            IN Lists!FirstOnes(Lists!Ordered(beyond, [j \in beyond |-> Lists!SortKey([v EXCEPT !.up = v.up], j)]))
      BY <3>1, Zenon DEF Lists!Keyset
    <3>3. [v EXCEPT !.up = v.up] = v /\ {j \in S : Lists!Beyond(v, i, j, v.up)} = after BY <1>1, <1>6
    <3>. HIDE DEF after
    <3>4. Lists!Keyset(v, S, i, FALSE)
          = Lists!FirstOnes(Lists!Ordered(after, [j \in after |-> Lists!SortKey(v, j)]))
      BY <3>2, <3>3, Zenon
    <3>. QED BY <3>4 DEF KeysOf
  <2>2. after \in SUBSET Entry /\ \A j \in after : own[j] = {k \in after : k \in before[j]}
    BY <1>4 DEF BeforeBy, KeysOf
  <2>3. /\ IsFiniteSet(after) /\ Chain(after, own)
        /\ InOrder(after, own, Lists!Ordered(after, KeysOf(v, after)))
    BY <1>s, <2>2, SortedList
  <2>. HIDE DEF own
  <2>4. InOrder(after, own, SubSeq(around, n + 1, Len(around))) BY <1>2, <2>2, ListAfter DEF i
  <2>5. Lists!Ordered(after, KeysOf(v, after)) = SubSeq(around, n + 1, Len(around)) BY <2>3, <2>4, OneList
  <2>. QED BY <2>1, <2>5
<1>8. Lists!Keyset(v, S, i, TRUE) = Lists!FirstOnes([k \in 1..n-1 |-> around[n - k]])
  <2>. DEFINE those == before[i]
              own == BeforeBy(those, KeysOf(w, those))
  <2>1. Lists!Keyset(v, S, i, TRUE) = Lists!FirstOnes(Lists!Ordered(those, KeysOf(w, those)))
    <3>1. (v.up # TRUE) = (~v.up)
      <4>. DEFINE u == v.up
      <4>1. u \in BOOLEAN BY <1>1
      <4>. HIDE DEF u
      <4>2. (u # TRUE) = (~u) BY <4>1
      <4>. QED BY <4>2 DEF u
    <3>. QED BY <1>1, <1>6, <3>1 DEF Lists!Keyset, KeysOf, w
  <2>2. those \in SUBSET S BY <1>2, <1>3 DEF Chain
  <2>3. \A j \in those : own[j] = {k \in those : j \in before[k]}
    BY <1>5, <2>2 DEF BeforeBy, KeysOf
  <2>. HIDE DEF those
  <2>4. /\ IsFiniteSet(those) /\ Chain(those, own)
        /\ InOrder(those, own, Lists!Ordered(those, KeysOf(w, those)))
    BY <1>s, <2>2, SortedList
  <2>. HIDE DEF own
  <2>5. InOrder(those, own, [k \in 1..n-1 |-> around[n - k]]) 
    <3>1. those = before[around[n]] BY DEF those, i
    <3>. DEFINE back == [k \in 1..n-1 |-> around[n - k]]
    <3>2. Backwards(S, around, n, back)
      <4>1. \A m \in 1..Len(around) : around[m] \in S /\ Len(around) \in Nat BY <1>2, OrderFacts
      <4>2. n - 1 \in Nat /\ \A k \in 1..n-1 : n - k \in 1..Len(around) BY <4>1
      <4>3. back \in [1..n-1 -> S] /\ \A k \in 1..n-1 : back[k] = around[n - k] BY <4>1, <4>2
      <4>. HIDE DEF back
      <4>. QED BY <4>2, <4>3 DEF Backwards
    <3>. HIDE DEF back
    <3>3. Opposite(those, before, own) BY <2>3 DEF Opposite
    <3>4. InOrder(those, own, back) BY <1>2, <3>1, <3>2, <3>3, ListBefore
    <3>. QED BY <3>4 DEF back
  <2>6. Lists!Ordered(those, KeysOf(w, those)) = [k \in 1..n-1 |-> around[n - k]] BY <2>4, <2>5, OneList
  <2>. QED BY <2>1, <2>6
<1>. QED BY <1>7, <1>8 DEF i, Following
-----------------------------------------------------------------------------
LEMMA FirstInOrder ==
  ASSUME ShelfTyped, NEW v, Sortable(v), NEW S \in SUBSET Entry, S # {}
  PROVE  Lists!First(v, S) \in S
<1>. DEFINE before == BeforeBy(S, KeysOf(v, S))
            list == Lists!Ordered(S, KeysOf(v, S))
<1>1. IsFiniteSet(S) /\ Chain(S, before) /\ InOrder(S, before, list) BY SortedList
<1>2. \A j, k \in S : j \in before[k] <=> Lists!Less(Lists!SortKey(v, j), Lists!SortKey(v, k))
  BY DEF BeforeBy, KeysOf
<1>. HIDE DEF before, list
<1>3. /\ Len(list) \in Nat /\ \A n \in 1..Len(list) : list[n] \in S
      /\ \A i \in S : \E n \in 1..Len(list) : list[n] = i
      /\ \A m, n \in 1..Len(list) : list[m] \in before[list[n]] <=> m < n
  BY <1>1, OrderFacts
<1>4. 1 \in 1..Len(list)
  <2>1. PICK i \in S : TRUE OBVIOUS
  <2>2. PICK n \in 1..Len(list) : list[n] = i BY <1>3
  <2>. QED BY <1>3, <2>2
<1>5. ASSUME NEW j \in S \ {list[1]} PROVE Lists!Less(Lists!SortKey(v, list[1]), Lists!SortKey(v, j))
  <2>1. PICK n \in 1..Len(list) : list[n] = j BY <1>3
  <2>2. 1 < n BY <1>3, <2>1
  <2>. QED BY <1>2, <1>3, <1>4, <2>1, <2>2
<1>6. \E i \in S : \A j \in S \ {i} : Lists!Less(Lists!SortKey(v, i), Lists!SortKey(v, j)) BY <1>3, <1>4, <1>5
<1>. QED BY <1>6, Zenon DEF Lists!First

GroupLength(v) == IF v.col = "name" THEN 3 ELSE 2
LEMMA GroupOrderFacts ==
  ASSUME ShelfTyped, NEW v, Sortable(v), NEW i \in Entry
  PROVE  Lists!GroupOrder(v, i) \in KeyOf(GroupLength(v)) /\ GroupLength(v) \in Nat
<1>0. v.col \in {"time", "name", "size", "length"} /\ v.up \in BOOLEAN BY Zenon DEF Sortable
<1>1. CASE v.col = "name"
  <2>1. Lists!GroupOrder(v, i) = Lists!Names(v.up, i) /\ GroupLength(v) = 3 BY <1>1 DEF Lists!GroupOrder, GroupLength
  <2>. QED BY <1>0, <2>1, NameKey
<1>2. CASE v.col = "length"
  <2>1. Lists!GroupOrder(v, i) = <<-shelf[i].time, -i>> /\ GroupLength(v) = 2
    BY <1>2 DEF Lists!GroupOrder, GroupLength
  <2>2. -shelf[i].time \in Int /\ -i \in Int BY Rowed
  <2>. QED BY <2>1, <2>2, TwoNumbers
<1>3. CASE v.col \in {"time", "size"}
  <2>. DEFINE a == Lists!Signed(v.up, shelf[i][v.col])
              c == Lists!Signed(v.up, i)
  <2>1. a \in Int /\ c \in Int
    <3>1. shelf[i][v.col] \in Int /\ i \in Int BY <1>3, Rowed
    <3>. QED BY <1>0, <3>1, SignedFacts DEF SignedInt
  <2>2. Lists!GroupOrder(v, i) = <<a, c>> /\ GroupLength(v) = 2 BY <1>3 DEF Lists!GroupOrder, GroupLength
  <2>. HIDE DEF a, c
  <2>. QED BY <2>1, <2>2, TwoNumbers
<1>. QED BY <1>0, <1>1, <1>2, <1>3

LEMMA Joined ==
  ASSUME NEW m \in Nat, NEW k \in Nat, NEW p \in KeyOf(m), NEW q \in KeyOf(k)
  PROVE  /\ p \o q \in KeyOf(m + k)
         /\ \A n \in 1..m : (p \o q)[n] = p[n]
         /\ \A n \in 1..k : (p \o q)[m + n] = q[n]
<1>1. p \in Seq(Int) /\ q \in Seq(Int) /\ Len(p) = m /\ Len(q) = k BY DEF KeyOf
<1>2. p \o q \in Seq(Int) /\ Len(p \o q) = m + k BY <1>1, ConcatProperties
<1>3. \A n \in 1..m+k : (p \o q)[n] = IF n <= m THEN p[n] ELSE q[n - m] BY <1>1, ConcatProperties
<1>4. ASSUME NEW n \in 1..m PROVE (p \o q)[n] = p[n]
  <2>1. n \in 1..m+k /\ n <= m OBVIOUS
  <2>. QED BY <1>3, <2>1
<1>5. ASSUME NEW n \in 1..k PROVE (p \o q)[m + n] = q[n]
  <2>1. m + n \in 1..m+k /\ ~(m + n <= m) /\ (m + n) - m = n OBVIOUS
  <2>. QED BY <1>3, <2>1
<1>. QED BY <1>2, <1>4, <1>5 DEF KeyOf

\* A sort key behind the columns of a group.
LEMMA Prefixed ==
  ASSUME ShelfTyped, NEW v, Sortable(v), NEW m \in Nat, NEW p \in KeyOf(m), NEW i \in Entry
  PROVE  /\ p \o Lists!SortKey(v, i) \in KeyOf(m + SortLength(v))
         /\ (p \o Lists!SortKey(v, i))[m + SortLength(v)] = Lists!Signed(v.up, i)
         /\ \A n \in 1..m : (p \o Lists!SortKey(v, i))[n] = p[n]
<1>. DEFINE l == SortLength(v)
            q == Lists!SortKey(v, i)
<1>1. l \in 2..3 /\ q \in KeyOf(l) /\ q[l] = Lists!Signed(v.up, i) BY SortKeyFacts
<1>. HIDE DEF l, q
<1>2. l \in Nat /\ l \in 1..l BY <1>1
<1>3. /\ p \o q \in KeyOf(m + l) /\ (p \o q)[m + l] = q[l] /\ \A n \in 1..m : (p \o q)[n] = p[n]
  BY <1>1, <1>2, Joined
<1>. QED BY <1>1, <1>3 DEF l, q

\* A key of a grouped list: what the group puts first, then the order within it.
WholeKey(p, v, i) == p \o Lists!SortKey(v, i)
LEMMA WholeKeyIs ==
  ASSUME ShelfTyped, NEW v, Sortable(v), NEW m \in Nat, NEW p \in KeyOf(m), NEW i \in Entry
  PROVE  /\ WholeKey(p, v, i) \in KeyOf(m + SortLength(v))
         /\ \A n \in 1..m : WholeKey(p, v, i)[n] = p[n]
<1>. DEFINE l == SortLength(v)
            q == Lists!SortKey(v, i)
<1>1. l \in 2..3 /\ q \in KeyOf(l) BY SortKeyFacts
<1>2. WholeKey(p, v, i) = p \o q BY DEF WholeKey
<1>. HIDE DEF l, q
<1>3. l \in Nat /\ l \in 1..l BY <1>1
<1>4. p \o q \in KeyOf(m + l) /\ \A n \in 1..m : (p \o q)[n] = p[n] BY <1>1, <1>3, Joined
<1>. QED BY <1>2, <1>4 DEF l

\* The columns of a group come before those of the sort key, as many for every row.
PrefixOf(v, S, i) ==
    LET twins == {j \in S : shelf[j].hash = shelf[i].hash /\ shelf[j].size = shelf[i].size}
        first == Lists!First(v, twins)
    IN IF v.kind = "duplicates"
       THEN ((IF v.group = "folder" THEN <<DirOf[first]>> ELSE <<>>) \o Lists!GroupOrder(v, first))
              \o <<shelf[i].hash, shelf[i].size>>
       ELSE CASE v.group = "folder" ->
                    Lists!GroupOrder(v, Lists!First(v, {j \in S : DirOf[j] = DirOf[i]})) \o <<DirOf[i]>>
              [] v.group = "day" -> <<Lists!Signed(v.up, Lists!Day(shelf[i].time))>>
              [] v.group = "size" -> <<Lists!Signed(v.up, Lists!SizeGroup(shelf[i].size))>>
              [] v.group = "letter" -> <<Lists!Signed(v.up, Name[i].letter)>>
              [] OTHER -> <<>>
PrefixLength(v) ==
    IF v.kind = "duplicates" THEN (IF v.group = "folder" THEN 1 ELSE 0) + GroupLength(v) + 2
    ELSE CASE v.group = "folder" -> GroupLength(v) + 1
           [] v.group \in {"day", "size", "letter"} -> 1
           [] OTHER -> 0

LEMMA OneNumber == ASSUME NEW a \in Int PROVE <<a>> \in KeyOf(1) /\ <<a>>[1] = a
BY DEF KeyOf
LEMMA NoNumber == <<>> \in KeyOf(0)
BY DEF KeyOf

LEMMA SizeGroupFacts == ASSUME NEW s PROVE Lists!SizeGroup(s) \in Nat
<1>. DEFINE T == {t \in Thresholds : s >= t}
<1>1. IsFiniteSet(T) BY ListsAssumption, FS_Subset DEF ListsAssumption
<1>2. Cardinality(T) \in Nat BY <1>1, FS_CardinalityType
<1>3. Lists!SizeGroup(s) = Cardinality(T) BY ListCardinality DEF Lists!SizeGroup
<1>. QED BY <1>2, <1>3

LEMMA FolderPrefix ==
  ASSUME ShelfTyped, NEW v, Sortable(v), NEW S \in SUBSET Entry, NEW i \in S
  PROVE  LET first == Lists!First(v, {j \in S : DirOf[j] = DirOf[i]})
         IN /\ first \in Entry
            /\ Lists!GroupOrder(v, first) \in KeyOf(GroupLength(v)) /\ GroupLength(v) \in Nat
            /\ Lists!GroupOrder(v, first) \o <<DirOf[i]>> \in KeyOf(GroupLength(v) + 1)
            /\ (Lists!GroupOrder(v, first) \o <<DirOf[i]>>)[GroupLength(v) + 1] = DirOf[i]
<1>. DEFINE mates == {j \in S : DirOf[j] = DirOf[i]}
            first == Lists!First(v, mates)
            g == GroupLength(v)
            a == Lists!GroupOrder(v, first)
            d == DirOf[i]
<1>1. mates \in SUBSET Entry /\ mates # {} OBVIOUS
<1>. HIDE DEF mates
<1>2. first \in mates BY <1>1, FirstInOrder
<1>3. first \in Entry BY <1>1, <1>2
<1>. HIDE DEF first
<1>4. a \in KeyOf(g) /\ g \in Nat BY <1>3, GroupOrderFacts
<1>. HIDE DEF a, g
<1>5. d \in Int BY Rowed
<1>. HIDE DEF d
<1>6. <<d>> \in KeyOf(1) /\ <<d>>[1] = d BY <1>5, OneNumber
<1>7. 1 \in Nat /\ 1 \in 1..1 OBVIOUS
<1>8. a \o <<d>> \in KeyOf(g + 1) /\ (a \o <<d>>)[g + 1] = d BY <1>4, <1>6, <1>7, Joined
<1>. QED BY <1>3, <1>4, <1>8 DEF first, mates, a, g, d

LEMMA DuplicatePrefix ==
  ASSUME ShelfTyped, NEW v, Sortable(v), NEW S \in SUBSET Entry, NEW i \in S, v.kind = "duplicates"
  PROVE  PrefixOf(v, S, i) \in KeyOf(PrefixLength(v)) /\ PrefixLength(v) \in Nat
<1>. DEFINE twins == {j \in S : shelf[j].hash = shelf[i].hash /\ shelf[j].size = shelf[i].size}
            first == Lists!First(v, twins)
            g == GroupLength(v)
            a == Lists!GroupOrder(v, first)
            f == IF v.group = "folder" THEN <<DirOf[first]>> ELSE <<>>
            lf == IF v.group = "folder" THEN 1 ELSE 0
            h == <<shelf[i].hash, shelf[i].size>>
<1>1. twins \in SUBSET Entry /\ twins # {} OBVIOUS
<1>2. PrefixOf(v, S, i) = (f \o a) \o h /\ PrefixLength(v) = lf + g + 2 BY DEF PrefixOf, PrefixLength
<1>. HIDE DEF twins
<1>3. first \in Entry BY <1>1, FirstInOrder
<1>. HIDE DEF first
<1>4. a \in KeyOf(g) /\ g \in Nat BY <1>3, GroupOrderFacts
<1>5. f \in KeyOf(lf) /\ lf \in Nat
  <2>1. DirOf[first] \in Int BY <1>3, Rowed
  <2>. QED BY <2>1, OneNumber, NoNumber
<1>6. h \in KeyOf(2)
  <2>1. shelf[i].hash \in Int /\ shelf[i].size \in Int BY Rowed
  <2>. QED BY <2>1, TwoNumbers
<1>. HIDE DEF a, g, f, lf, h
<1>7. f \o a \in KeyOf(lf + g) BY <1>4, <1>5, Joined
<1>8. lf + g \in Nat /\ 2 \in Nat /\ lf + g + 2 \in Nat BY <1>4, <1>5
<1>. DEFINE m == lf + g
            b == f \o a
<1>. HIDE DEF m, b
<1>9. b \o h \in KeyOf(m + 2)
  <2>1. b \in KeyOf(m) /\ m \in Nat BY <1>7, <1>8 DEF b, m
  <2>. QED BY <1>6, <1>8, <2>1, Joined
<1>. QED BY <1>2, <1>8, <1>9 DEF b, m

LEMMA PrefixFacts ==
  ASSUME ShelfTyped, NEW v \in Lists!View, NEW S \in SUBSET Entry, NEW i \in S
  PROVE  PrefixOf(v, S, i) \in KeyOf(PrefixLength(v)) /\ PrefixLength(v) \in Nat
<1>0. Sortable(v) BY ViewSortable
<1>1. CASE v.kind = "duplicates" BY <1>0, <1>1, DuplicatePrefix
<1>2. CASE v.kind # "duplicates" /\ v.group = "folder"
  <2>1. /\ PrefixOf(v, S, i) = Lists!GroupOrder(v, Lists!First(v, {j \in S : DirOf[j] = DirOf[i]})) \o <<DirOf[i]>>
        /\ PrefixLength(v) = GroupLength(v) + 1
    BY <1>2 DEF PrefixOf, PrefixLength
  <2>. DEFINE p == Lists!GroupOrder(v, Lists!First(v, {j \in S : DirOf[j] = DirOf[i]})) \o <<DirOf[i]>>
  <2>2. p \in KeyOf(GroupLength(v) + 1) /\ GroupLength(v) \in Nat BY <1>0, FolderPrefix
  <2>. HIDE DEF p
  <2>3. GroupLength(v) + 1 \in Nat BY <2>2
  <2>. QED BY <2>1, <2>2, <2>3 DEF p
<1>3. CASE v.kind # "duplicates" /\ v.group \in {"day", "size", "letter"}
  <2>. DEFINE x == CASE v.group = "day" -> Lists!Day(shelf[i].time)
                     [] v.group = "size" -> Lists!SizeGroup(shelf[i].size)
                     [] OTHER -> Name[i].letter
              up == v.up
  <2>1. PrefixOf(v, S, i) = <<Lists!Signed(up, x)>> /\ PrefixLength(v) = 1 BY <1>3 DEF PrefixOf, PrefixLength
  <2>2. x \in Int
    <3>1. Lists!Day(shelf[i].time) \in Int BY Rowed DEF Lists!Day
    <3>2. Lists!SizeGroup(shelf[i].size) \in Int BY SizeGroupFacts
    <3>3. Name[i].letter \in Int BY Rowed
    <3>. QED BY <1>3, <3>1, <3>2, <3>3
  <2>3. up \in BOOLEAN BY <1>0, Zenon DEF Sortable
  <2>. HIDE DEF x, up
  <2>4. Lists!Signed(up, x) \in Int BY <2>2, <2>3, SignedFacts DEF SignedInt
  <2>. QED BY <2>1, <2>4, OneNumber
<1>4. CASE v.kind # "duplicates" /\ v.group = ""
  <2>1. PrefixOf(v, S, i) = <<>> /\ PrefixLength(v) = 0 BY <1>4 DEF PrefixOf, PrefixLength
  <2>. QED BY <2>1, NoNumber
<1>5. v.group \in {"", "folder", "day", "size", "letter"} BY ViewParts
<1>. QED BY <1>1, <1>2, <1>3, <1>4, <1>5

LEMMA ListKeyIs ==
  ASSUME ShelfTyped, NEW v \in Lists!View, NEW S \in SUBSET Entry, NEW i \in S
  PROVE  Lists!ListKey(v, S, i) = PrefixOf(v, S, i) \o Lists!SortKey(v, i)
<1>5. v.group \in {"", "folder", "day", "size", "letter"} BY ViewParts
<1>1. CASE v.kind = "duplicates" BY <1>1 DEF Lists!ListKey, Lists!DuplicateKey, PrefixOf
<1>2. CASE v.kind # "duplicates" /\ v.group = "folder"
  BY <1>2 DEF Lists!ListKey, Lists!PlainKey, Lists!FolderKey, PrefixOf
<1>3. CASE v.kind # "duplicates" /\ v.group # "folder"
  BY <1>3, <1>5 DEF Lists!ListKey, Lists!PlainKey, Lists!GroupedKey, PrefixOf
<1>. QED BY <1>1, <1>2, <1>3

KeysIn(v) == [i \in Lists!Rows(v) |-> Lists!ListKey(v, Lists!Rows(v), i)]

\* A list is in the order of its keys.
LEMMA WholeList ==
  ASSUME ShelfTyped, NEW v \in Lists!View
  PROVE  /\ Lists!Rows(v) \in SUBSET Entry /\ IsFiniteSet(Lists!Rows(v))
         /\ Chain(Lists!Rows(v), BeforeBy(Lists!Rows(v), KeysIn(v)))
         /\ InOrder(Lists!Rows(v), BeforeBy(Lists!Rows(v), KeysIn(v)), Lists!List(v))
<1>. DEFINE S == Lists!Rows(v)
            key == KeysIn(v)
            m == PrefixLength(v)
            l == SortLength(v)
            up == v.up
<1>0. Sortable(v) /\ up \in BOOLEAN BY ViewSortable, Zenon DEF Sortable
<1>1. S \in SUBSET Entry BY DEF Lists!Rows
<1>2. l \in Nat \ {0}
  <2>1. l \in 2..3 BY DEF SortLength
  <2>. QED BY <2>1
<1>3. Lists!List(v) = Lists!Ordered(S, key) BY DEF Lists!List, KeysIn
<1>4. \A i \in S : key[i] = PrefixOf(v, S, i) \o Lists!SortKey(v, i) BY <1>1, ListKeyIs DEF KeysIn
<1>. HIDE DEF S, key, l
<1>5. ASSUME NEW i \in S PROVE key[i] \in KeyOf(m + l) /\ key[i][m + l] = Lists!Signed(up, i) /\ m \in Nat
  <2>1. PrefixOf(v, S, i) \in KeyOf(m) /\ m \in Nat BY <1>1, PrefixFacts
  <2>2. i \in Entry BY <1>1
  <2>. DEFINE p == PrefixOf(v, S, i)
  <2>3. p \in KeyOf(m) /\ m \in Nat BY <2>1
  <2>. HIDE DEF m, p
  <2>4. /\ p \o Lists!SortKey(v, i) \in KeyOf(m + SortLength(v))
        /\ (p \o Lists!SortKey(v, i))[m + SortLength(v)] = Lists!Signed(v.up, i)
    BY <1>0, <2>2, <2>3, Prefixed
  <2>. QED BY <1>4, <2>3, <2>4 DEF l, p
<1>6. CASE S = {}
  <2>1. 1 \in Nat \ {0} OBVIOUS
  <2>2. IsFiniteSet(S) /\ Chain(S, BeforeBy(S, key)) /\ InOrder(S, BeforeBy(S, key), Lists!Ordered(S, key))
    BY <1>0, <1>1, <1>6, <2>1, KeyedList
  <2>. QED BY <1>1, <1>3, <2>2 DEF S, key
<1>7. CASE S # {}
  <2>1. m \in Nat BY <1>5, <1>7
  <2>. HIDE DEF m, up
  <2>2. m + l \in Nat \ {0} BY <1>2, <2>1
  <2>3. IsFiniteSet(S) /\ Chain(S, BeforeBy(S, key)) /\ InOrder(S, BeforeBy(S, key), Lists!Ordered(S, key))
    BY <1>0, <1>1, <1>5, <2>2, KeyedList
  <2>. QED BY <1>1, <1>3, <2>3 DEF S, key
<1>. QED BY <1>6, <1>7

LEMMA PlainList ==
  ASSUME ShelfTyped, NEW v \in Lists!View, v.kind # "duplicates", v.group = ""
  PROVE  Lists!List(v) = Lists!Ordered(Lists!Rows(v), KeysOf(v, Lists!Rows(v)))
<1>. DEFINE S == Lists!Rows(v)
<1>0. Sortable(v) BY ViewSortable
<1>1. S \in SUBSET Entry BY DEF Lists!Rows
<1>2. Lists!List(v) = Lists!Ordered(S, [i \in S |-> Lists!ListKey(v, S, i)]) BY DEF Lists!List
<1>. HIDE DEF S
<1>3. ASSUME NEW i \in S PROVE Lists!ListKey(v, S, i) = Lists!SortKey(v, i)
  <2>1. Lists!ListKey(v, S, i) = <<>> \o Lists!SortKey(v, i)
    BY DEF Lists!ListKey, Lists!PlainKey, Lists!GroupedKey
  <2>. DEFINE k == Lists!SortKey(v, i)
  <2>2. k \in Seq(Int) BY <1>0, <1>1, SortKeyFacts DEF KeyOf
  <2>. HIDE DEF k
  <2>3. <<>> \o k = k BY <2>2, ConcatEmptySeq
  <2>. QED BY <2>1, <2>3 DEF k
<1>4. [i \in S |-> Lists!ListKey(v, S, i)] = KeysOf(v, S) BY <1>3 DEF KeysOf
<1>. QED BY <1>2, <1>4 DEF S

LEMMA Neighbouring ==
  ASSUME ShelfTyped, NEW v \in Lists!View, NEW n \in DOMAIN Lists!List(v)
  PROVE  LET list == Lists!List(v)
             around == Lists!Searched(v, list)
             at == Lists!Number(around, list[n])
         IN /\ Lists!Neighbours(v, list, list[n], FALSE) = Lists!FirstOnes(SubSeq(around, at + 1, Len(around)))
            /\ Lists!Neighbours(v, list, list[n], TRUE) = Lists!FirstOnes([k \in 1..at-1 |-> around[at - k]])
<1>. DEFINE S == Lists!Rows(v)
            list == Lists!List(v)
            before == BeforeBy(S, KeysIn(v))
            around == Lists!Searched(v, list)
            at == Lists!Number(around, list[n])
<1>1. S \in SUBSET Entry /\ IsFiniteSet(S) /\ Chain(S, before) /\ InOrder(S, before, list) BY WholeList
<1>2. n \in 1..Len(list) /\ list[n] \in S
  <2>. HIDE DEF before
  <2>1. DOMAIN list = 1..Len(list) /\ \A k \in 1..Len(list) : list[k] \in S BY <1>1, OrderFacts
  <2>. QED BY <2>1
<1>3. Lists!Number(list, list[n]) = n
  <2>. HIDE DEF before, list, S
  <2>. QED BY <1>1, <1>2, NumberInList
<1>. DEFINE byNumber == v.kind \in Lists!Systems \/ v.group # "" \/ v.col = "length"
            fast == Lists!FastEligible(v) /\ v.group = ""
<1>4. CASE byNumber
  <2>1. ~fast BY <1>4 DEF Lists!FastEligible, Lists!Systems
  <2>2. around = list BY <2>1 DEF Lists!Searched
  <2>3. /\ Lists!Neighbours(v, list, list[n], FALSE) = Lists!ByNumber(list, list[n], FALSE)
        /\ Lists!Neighbours(v, list, list[n], TRUE) = Lists!ByNumber(list, list[n], TRUE)
    <3>. HIDE DEF list
    <3>. QED BY <1>4, <2>1 DEF Lists!Neighbours
  <2>. HIDE DEF list, byNumber, fast, around
  <2>4. /\ Lists!ByNumber(list, list[n], FALSE) = Lists!FirstOnes(SubSeq(list, n + 1, Len(list)))
        /\ Lists!ByNumber(list, list[n], TRUE) = Lists!FirstOnes([k \in 1..n-1 |-> list[n - k]])
    BY <1>3 DEF Lists!ByNumber
  <2>. QED BY <1>3, <2>2, <2>3, <2>4 DEF around, list
<1>5. CASE ~byNumber /\ fast
  <2>. DEFINE F == Lists!FastRows
  <2>1. around = Lists!Ordered(F, KeysOf(v, F)) BY <1>5 DEF Lists!Searched, KeysOf
  <2>2. F \in SUBSET Entry BY ListsAssumption DEF ListsAssumption, Lists!FastRows
  <2>3. list[n] \in F
    <3>1. Lists!Passes(v, list[n]) /\ v.narrow # "none" BY <1>2, <1>5 DEF Lists!Rows, Lists!FastEligible
    <3>. QED BY <3>1 DEF Lists!Passes, Lists!FastRows
  <2>4. \A previous \in BOOLEAN : Lists!Neighbours(v, list, list[n], previous) = Lists!Keyset(v, F, list[n], previous)
    BY <1>5 DEF Lists!Neighbours
  <2>5. v.col # "length" BY <1>5
  <2>. DEFINE i == list[n]
  <2>. HIDE DEF list, F, byNumber, fast, around, i
  <2>6. /\ IsFiniteSet(F) /\ Chain(F, BeforeBy(F, KeysOf(v, F)))
        /\ InOrder(F, BeforeBy(F, KeysOf(v, F)), around)
    BY <2>1, <2>2, ViewSortable, SortedList
  <2>7. PICK m \in 1..Len(around) : around[m] = i BY <2>3, <2>6, OrderFacts DEF i
  <2>8. at = m BY <2>6, <2>7, NumberInList DEF i
  <2>a. m \in 1..Len(around) /\ i = around[m] BY <2>7
  <2>9. /\ Lists!Keyset(v, F, i, FALSE) = Lists!FirstOnes(SubSeq(around, m + 1, Len(around)))
        /\ Lists!Keyset(v, F, i, TRUE) = Lists!FirstOnes([k \in 1..m-1 |-> around[m - k]])
    <3>1. Following(v, F, around, m) BY <2>1, <2>2, <2>5, <2>a, KeysetFollows
    <3>. QED BY <2>a, <3>1 DEF Following
  <2>10. TRUE \in BOOLEAN /\ FALSE \in BOOLEAN OBVIOUS
  <2>. QED BY <2>4, <2>8, <2>9, <2>10 DEF i, around, list
<1>6. CASE ~byNumber /\ ~fast
  <2>1. around = list BY <1>6 DEF Lists!Searched
  <2>2. v.kind # "duplicates" /\ v.group = "" /\ v.col # "length" BY <1>6 DEF Lists!Systems
  <2>3. list = Lists!Ordered(S, KeysOf(v, S)) BY <2>2, PlainList
  <2>4. \A previous \in BOOLEAN : Lists!Neighbours(v, list, list[n], previous) = Lists!Keyset(v, S, list[n], previous)
    BY <1>6 DEF Lists!Neighbours
  <2>. HIDE DEF list, S, byNumber, fast, around
  <2>a. S \in SUBSET Entry /\ v.col # "length" /\ n \in 1..Len(list) /\ list[n] = list[n] BY <1>1, <1>2, <2>2
  <2>5. /\ Lists!Keyset(v, S, list[n], FALSE) = Lists!FirstOnes(SubSeq(list, n + 1, Len(list)))
        /\ Lists!Keyset(v, S, list[n], TRUE) = Lists!FirstOnes([k \in 1..n-1 |-> list[n - k]])
    <3>1. Following(v, S, list, n) BY <2>a, <2>3, KeysetFollows
    <3>. QED BY <3>1 DEF Following
  <2>6. TRUE \in BOOLEAN /\ FALSE \in BOOLEAN OBVIOUS
  <2>. QED BY <1>3, <2>1, <2>4, <2>5, <2>6 DEF around, list
<1>. HIDE DEF byNumber, fast
<1>. QED BY <1>4, <1>5, <1>6

LEMMA NeighboursFollow ==
  ASSUME ShelfTyped, view \in Lists!View
  PROVE  Lists!NeighboursFollowList
BY Neighbouring DEF Lists!NeighboursFollowList
LEMMA Division ==
  ASSUME NEW x \in Nat, NEW d \in Nat \ {0}
  PROVE  x \div d \in Nat /\ x % d \in 0..d-1 /\ x = (x \div d) * d + (x % d)
<1>1. x \div d \in Nat OBVIOUS
<1>2. x % d \in Int /\ 0 <= x % d /\ x % d < d OBVIOUS
<1>3. x = (x \div d) * d + (x % d) OBVIOUS
<1>. QED BY <1>1, <1>2, <1>3
LEMMA DivIs ==
  ASSUME NEW x \in Nat, NEW d \in Nat \ {0}, NEW q \in Nat, q * d <= x, x < (q + 1) * d
  PROVE  x \div d = q
OBVIOUS
LEMMA Glue ==
  ASSUME NEW S, NEW list \in Seq(S), NEW a \in 0..Len(list), NEW b \in a..Len(list)
  PROVE  SubSeq(list, 1, a) \o SubSeq(list, a + 1, b) = SubSeq(list, 1, b)
OBVIOUS
LEMMA RowsFromTo ==
  ASSUME NEW S, NEW list \in Seq(S), NEW a \in 0..Len(list), NEW b \in a..Len(list)
  PROVE  /\ SubSeq(list, a + 1, b) \in Seq(S) /\ Len(SubSeq(list, a + 1, b)) = b - a
         /\ \A n \in 1..b-a : SubSeq(list, a + 1, b)[n] = list[a + n]
OBVIOUS

Paging == PageSize \in Nat \ {0}
LEMMA PageSized == Paging BY ListsAssumption DEF ListsAssumption, Paging

UpTo(a, list) == IF a < Len(list) THEN a ELSE Len(list)
LEMMA PageIs ==
  ASSUME NEW S, NEW list \in Seq(S), NEW p \in Nat \ {0}, NEW o, o = (p - 1) * PageSize, o <= Len(list)
  PROVE  /\ o \in Nat
         /\ Lists!Page(list, p).items = SubSeq(list, o + 1, UpTo(o + PageSize, list))
         /\ Lists!Page(list, p).more <=> o + PageSize < Len(list)
<1>. DEFINE len == Len(list)
            b == IF o + (PageSize + 1) < len THEN o + (PageSize + 1) ELSE len
            got == SubSeq(list, o + 1, b)
<1>1. PageSize \in Nat /\ PageSize > 0 /\ len \in Nat BY PageSized DEF Paging
<1>2. o \in Nat
  <2>1. p - 1 \in Nat OBVIOUS
  <2>. QED BY <1>1, <2>1
<1>3. Lists!Page(list, p) = [items |-> IF Len(got) > PageSize THEN SubSeq(got, 1, PageSize) ELSE got,
                             more |-> Len(got) > PageSize]
  BY DEF Lists!Page, Lists!Fetched
<1>a. /\ Lists!Page(list, p).items = IF Len(got) > PageSize THEN SubSeq(got, 1, PageSize) ELSE got
      /\ Lists!Page(list, p).more <=> Len(got) > PageSize
  <2>. DEFINE m == Len(got) > PageSize
              t == IF Len(got) > PageSize THEN SubSeq(got, 1, PageSize) ELSE got
  <2>1. m \in BOOLEAN OBVIOUS
  <2>2. Lists!Page(list, p) = [items |-> t, more |-> m] BY <1>3
  <2>. HIDE DEF m, t
  <2>3. Lists!Page(list, p).items = t /\ Lists!Page(list, p).more = m BY <2>2
  <2>. QED BY <2>3 DEF m, t
<1>4. o \in 0..len /\ b \in o..len BY <1>1, <1>2
<1>. HIDE DEF len
<1>5. /\ got \in Seq(S) /\ Len(got) = b - o
      /\ \A n \in 1..b-o : got[n] = list[o + n]
  BY <1>4, RowsFromTo DEF len
<1>6. b - o > PageSize <=> o + PageSize < len BY <1>1, <1>2
<1>7. CASE o + PageSize < len
  <2>1. b - o = PageSize + 1 BY <1>1, <1>2, <1>7
  <2>. HIDE DEF got, b
  <2>2. SubSeq(got, 1, PageSize) = SubSeq(list, o + 1, o + PageSize)
    <3>. DEFINE x == SubSeq(got, 1, PageSize)
                y == SubSeq(list, o + 1, o + PageSize)
                c == o + PageSize
    <3>1. c \in o..len /\ c - o = PageSize /\ c = o + PageSize BY <1>1, <1>2, <1>7
    <3>2. PageSize \in 0..Len(got) /\ 0 \in 0..Len(got) /\ PageSize - 0 = PageSize /\ 0 + 1 = 1 BY <1>1, <1>5, <2>1
    <3>3. y \in Seq(S) /\ Len(y) = PageSize /\ \A n \in 1..PageSize : y[n] = list[o + n]
      <4>. HIDE DEF c
      <4>1. /\ SubSeq(list, o + 1, c) \in Seq(S) /\ Len(SubSeq(list, o + 1, c)) = c - o
            /\ \A n \in 1..c-o : SubSeq(list, o + 1, c)[n] = list[o + n]
        <5>1. o \in 0..Len(list) /\ c \in o..Len(list) BY <1>4, <3>1 DEF len
        <5>. QED BY <5>1, RowsFromTo
      <4>. QED BY <3>1, <4>1
    <3>4. x \in Seq(S) /\ Len(x) = PageSize /\ \A n \in 1..PageSize : x[n] = got[n]
      <4>1. /\ SubSeq(got, 1, PageSize) \in Seq(S) /\ Len(SubSeq(got, 1, PageSize)) = PageSize
            /\ \A n \in 1..PageSize : SubSeq(got, 1, PageSize)[n] = got[n]
        BY <1>1, <1>5, <3>2
      <4>. QED BY <4>1
    <3>5. \A n \in 1..PageSize : got[n] = list[o + n] BY <1>1, <1>5, <2>1
    <3>. HIDE DEF x, y
    <3>6. x = y BY <1>1, <3>3, <3>4, <3>5
    <3>. QED BY <3>6 DEF x, y
  <2>3. Len(got) > PageSize BY <1>5, <1>6, <1>7
  <2>4. UpTo(o + PageSize, list) = o + PageSize BY <1>7 DEF UpTo, len
  <2>. QED BY <1>2, <1>7, <1>a, <2>2, <2>3, <2>4 DEF len
<1>8. CASE ~(o + PageSize < len)
  <2>1. b = len /\ ~(b - o > PageSize) BY <1>1, <1>2, <1>8
  <2>2. UpTo(o + PageSize, list) = len BY <1>8 DEF UpTo, len
  <2>. HIDE DEF b
  <2>3. ~(Len(got) > PageSize) /\ got = SubSeq(list, o + 1, len) BY <1>5, <2>1
  <2>. QED BY <1>2, <1>8, <1>a, <2>2, <2>3 DEF len
<1>. QED BY <1>7, <1>8

\* Where a page and a row of it are found.
LEMMA RowOnPage ==
  ASSUME NEW S, NEW list \in Seq(S), NEW x \in Nat, x < Len(list)
  PROVE  /\ (x % PageSize) + 1 \in 1..PageSize
         /\ (x % PageSize) + 1 \in DOMAIN Lists!Page(list, Lists!PageOf(x)).items
         /\ Lists!Page(list, Lists!PageOf(x)).items[(x % PageSize) + 1] = list[x + 1]
<1>. DEFINE q == x \div PageSize
            r == x % PageSize
            p == Lists!PageOf(x)
            o == q * PageSize
            b == UpTo(o + PageSize, list)
            items == SubSeq(list, o + 1, b)
            len == Len(list)
<1>1. PageSize \in Nat \ {0} BY PageSized DEF Paging
<1>2. q \in Nat /\ r \in 0..PageSize-1 /\ x = o + r BY <1>1, Division
<1>3. p = q + 1 BY DEF Lists!PageOf
<1>. HIDE DEF q, r, p
<1>4. o \in Nat /\ len \in Nat BY <1>1, <1>2
<1>5. p \in Nat \ {0} /\ o = (p - 1) * PageSize
  <2>1. p \in Nat \ {0} /\ p - 1 = q BY <1>2, <1>3
  <2>. QED BY <2>1
<1>. HIDE DEF o
<1>6. o <= len BY <1>1, <1>2, <1>4
<1>7. Lists!Page(list, p).items = items BY <1>5, <1>6, PageIs
<1>8. o \in 0..len /\ b \in o..len /\ r < b - o BY <1>1, <1>2, <1>4, <1>6 DEF UpTo
<1>. HIDE DEF b
<1>9. Len(items) = b - o /\ items \in Seq(S) /\ \A n \in 1..b-o : items[n] = list[o + n] BY <1>8, RowsFromTo
<1>. HIDE DEF items
<1>10. r + 1 \in 1..b-o /\ r + 1 \in 1..PageSize /\ o + (r + 1) = x + 1 BY <1>1, <1>2, <1>4, <1>8
<1>11. r + 1 \in DOMAIN items /\ items[r + 1] = list[x + 1] BY <1>9, <1>10
<1>. QED BY <1>7, <1>10, <1>11 DEF r, p

LEMMA PositionsRight ==
  ASSUME NEW S, NEW list \in Seq(S), \A n \in DOMAIN list : Lists!Number(list, list[n]) = n
  PROVE  Lists!PositionsAreRight(list)
<1>. SUFFICES ASSUME NEW n \in DOMAIN list
              PROVE  LET at == Lists!Position(list, list[n])
                     IN Lists!Page(list, at.page).items[(at.index % PageSize) + 1] = list[n]
  BY DEF Lists!PositionsAreRight
<1>. DEFINE x == n - 1
<1>1. n \in 1..Len(list) OBVIOUS
<1>2. x \in Nat /\ x < Len(list) /\ x + 1 = n BY <1>1
<1>3. Lists!Position(list, list[n]) = [index |-> x, page |-> Lists!PageOf(x)] BY DEF Lists!Position
<1>. HIDE DEF x
<1>4. Lists!Page(list, Lists!PageOf(x)).items[(x % PageSize) + 1] = list[n] BY <1>2, RowOnPage
<1>. QED BY <1>3, <1>4

LEMMA Offsets ==
  ASSUME NEW p \in Nat \ {0}, PageSize \in Nat \ {0}
  PROVE  (p - 1) * PageSize + PageSize = p * PageSize /\ p * PageSize \in Nat /\ (p - 1) * PageSize \in Nat
OBVIOUS

\* Pages are read up to one that says there is no more; none before it is empty.
LEMMA LastPage ==
  ASSUME NEW S, NEW list \in Seq(S)
  PROVE  \E last \in 1..(Len(list) + 1) : /\ ~Lists!Page(list, last).more
                                          /\ \A q \in 1..last-1 : Lists!Page(list, q).more
<1>. DEFINE len == Len(list)
            q == len \div PageSize
            Last == {p \in 1..len+1 : ~Lists!Page(list, p).more}
<1>1. PageSize \in Nat \ {0} /\ len \in Nat BY PageSized DEF Paging
<1>2. q \in Nat /\ q * PageSize <= len /\ len < q * PageSize + PageSize /\ q <= len
  <2>1. q \in Nat /\ len % PageSize \in 0..PageSize-1 /\ len = q * PageSize + (len % PageSize) BY <1>1, Division
  <2>. DEFINE r == len % PageSize
              qp == q * PageSize
  <2>. HIDE DEF q, r
  <2>2. r \in 0..PageSize-1 /\ len = qp + r /\ qp \in Nat BY <1>1, <2>1 DEF r
  <2>3. q <= qp BY <1>1, <2>1
  <2>. HIDE DEF qp, len
  <2>4. qp <= len /\ len < qp + PageSize /\ q <= len BY <1>1, <2>1, <2>2, <2>3
  <2>. QED BY <2>1, <2>4 DEF qp
<1>. HIDE DEF q, len
<1>3. q + 1 \in Last
  <2>. DEFINE p == q + 1
              o == q * PageSize
  <2>1. p \in Nat \ {0} /\ p \in 1..len+1 /\ p - 1 = q BY <1>1, <1>2
  <2>2. o = (p - 1) * PageSize /\ o <= Len(list) BY <1>2, <2>1 DEF len
  <2>3. ~(o + PageSize < Len(list)) BY <1>1, <1>2 DEF len
  <2>. HIDE DEF p, o
  <2>4. ~Lists!Page(list, p).more BY <2>1, <2>2, <2>3, PageIs
  <2>. QED BY <2>1, <2>4 DEF p
<1>4. PICK last \in Last : \A p \in Last : last <= p
  <2>1. Last \in SUBSET Nat /\ Last # {} BY <1>3
  <2>. QED BY <2>1, Least
<1>5. ASSUME NEW p \in 1..last-1 PROVE Lists!Page(list, p).more
  <2>1. p \in 1..len+1 /\ ~(last <= p) BY <1>1, <1>4
  <2>. QED BY <1>4, <2>1
<1>. QED BY <1>4, <1>5 DEF len

LEMMA PagesCover ==
  ASSUME NEW S, NEW list \in Seq(S)
  PROVE  Lists!PagesCoverList(list)
<1>. DEFINE len == Len(list)
            Last(p) == ~Lists!Page(list, p).more /\ \A q \in 1..p-1 : Lists!Page(list, q).more
            last == CHOOSE p \in 1..(Len(list) + 1) : Last(p)
            items(p) == Lists!Page(list, p).items
            Read(f) == f = [p \in 0..last |-> IF p = 0 THEN <<>> ELSE f[p-1] \o items(p)]
            read == CHOOSE f : Read(f)
            upto == [p \in 0..last |-> SubSeq(list, 1, UpTo(p * PageSize, list))]
<1>1. Lists!ReadToEnd(list) = read[last] BY DEF Lists!ReadToEnd
<1>2. PageSize \in Nat \ {0} /\ len \in Nat BY PageSized DEF Paging
<1>3. last \in 1..len+1 /\ Last(last) BY LastPage
<1>. HIDE DEF last
<1>4. ASSUME NEW p \in 1..last PROVE (p - 1) * PageSize <= len
  <2>. DEFINE Bad == {k \in 1..last : ~((k - 1) * PageSize <= len)}
  <2>1. SUFFICES ASSUME Bad # {} PROVE FALSE OBVIOUS
  <2>2. PICK k \in Bad : \A m \in Bad : k <= m
    <3>1. Bad \in SUBSET Nat BY <1>3
    <3>. QED BY <2>1, <3>1, Least
  <2>3. k \in 1..last /\ ~((k - 1) * PageSize <= len) BY <2>2
  <2>4. k # 1 BY <1>2, <2>3
  <2>. DEFINE m == k - 1
  <2>5. m \in 1..last-1 /\ m \in Nat \ {0} /\ m \in 1..last /\ ~(k <= m) BY <1>3, <2>3, <2>4
  <2>6. (m - 1) * PageSize <= len BY <2>2, <2>5
  <2>. HIDE DEF m
  <2>7. Lists!Page(list, m).more <=> (m - 1) * PageSize + PageSize < Len(list) BY <2>5, <2>6, PageIs DEF len
  <2>8. (m - 1) * PageSize + PageSize = m * PageSize /\ m * PageSize \in Nat BY <1>2, <2>5, Offsets
  <2>9. m * PageSize < len BY <1>3, <2>5, <2>7, <2>8 DEF len
  <2>. QED BY <1>2, <2>3, <2>8, <2>9 DEF m
<1>5. ASSUME NEW p \in 1..last
      PROVE  /\ (p - 1) * PageSize \in 0..len /\ p * PageSize \in Nat /\ (p - 1) * PageSize <= p * PageSize
             /\ (p < last <=> p * PageSize < len)
             /\ items(p) = SubSeq(list, (p - 1) * PageSize + 1, UpTo(p * PageSize, list))
  <2>1. p \in Nat \ {0} BY <1>3
  <2>2. /\ (p - 1) * PageSize + PageSize = p * PageSize
        /\ (p - 1) * PageSize \in Nat /\ p * PageSize \in Nat
    BY <1>2, <2>1, Offsets
  <2>. DEFINE o == (p - 1) * PageSize
              e == p * PageSize
  <2>3. o <= Len(list) BY <1>4 DEF len
  <2>4. o + PageSize = e /\ o \in Nat /\ e \in Nat BY <2>2
  <2>5. o = (p - 1) * PageSize OBVIOUS
  <2>. HIDE DEF o, e, items
  <2>6. items(p) = SubSeq(list, o + 1, UpTo(e, list)) /\ (Lists!Page(list, p).more <=> e < Len(list))
    BY <2>1, <2>3, <2>4, <2>5, PageIs DEF items
  <2>7. p < last <=> Lists!Page(list, p).more BY <1>3
  <2>. QED BY <1>2, <2>3, <2>4, <2>6, <2>7 DEF o, e, len
<1>. HIDE DEF items, len
<1>6. ASSUME NEW p \in 1..last
      PROVE  SubSeq(list, 1, UpTo((p - 1) * PageSize, list)) \o items(p) = SubSeq(list, 1, UpTo(p * PageSize, list))
  <2>. DEFINE o == (p - 1) * PageSize
              e == p * PageSize
              b == UpTo(e, list)
  <2>1. /\ o \in 0..len /\ e \in Nat /\ o <= e /\ items(p) = SubSeq(list, o + 1, b) BY <1>5
  <2>. HIDE DEF o, e
  <2>2. UpTo(o, list) = o /\ o \in 0..Len(list) /\ b \in o..Len(list) BY <1>2, <2>1 DEF UpTo, len
  <2>. HIDE DEF b
  <2>3. SubSeq(list, 1, o) \o SubSeq(list, o + 1, b) = SubSeq(list, 1, b) BY <2>2, Glue
  <2>. QED BY <2>1, <2>2, <2>3 DEF o, e, b
<1>7. SubSeq(list, 1, UpTo(0 * PageSize, list)) = <<>>
  <2>1. UpTo(0 * PageSize, list) = 0 BY <1>2 DEF UpTo, len
  <2>. QED BY <2>1, SubSeqEmpty
<1>8. Read(upto)
  <2>1. ASSUME NEW p \in 0..last PROVE upto[p] = IF p = 0 THEN <<>> ELSE upto[p-1] \o items(p)
    <3>1. CASE p = 0 BY <1>7, <3>1
    <3>2. CASE p # 0
      <4>1. p \in 1..last /\ p - 1 \in 0..last BY <1>3, <3>2
      <4>2. upto[p] = SubSeq(list, 1, UpTo(p * PageSize, list))
            /\ upto[p-1] = SubSeq(list, 1, UpTo((p - 1) * PageSize, list))
        BY <4>1
      <4>. HIDE DEF upto
      <4>. QED BY <1>6, <3>2, <4>1, <4>2
    <3>. QED BY <3>1, <3>2
  <2>2. upto = [p \in 0..last |-> upto[p]] OBVIOUS
  <2>. HIDE DEF upto
  <2>. QED BY <2>1, <2>2
<1>9. Read(read) BY <1>8, Zenon
<1>. HIDE DEF read, upto
<1>10. ASSUME NEW p \in 0..last PROVE read[p] = SubSeq(list, 1, UpTo(p * PageSize, list))
  <2>. DEFINE Bad == {k \in 0..last : read[k] # SubSeq(list, 1, UpTo(k * PageSize, list))}
  <2>1. SUFFICES ASSUME Bad # {} PROVE FALSE OBVIOUS
  <2>2. PICK k \in Bad : \A m \in Bad : k <= m
    <3>1. Bad \in SUBSET Nat BY <1>3
    <3>. QED BY <2>1, <3>1, Least
  <2>3. read[k] = IF k = 0 THEN <<>> ELSE read[k-1] \o items(k)
    <3>1. k \in 0..last BY <2>2
    <3>. QED BY <1>9, <3>1
  <2>4. k # 0 BY <1>7, <2>2, <2>3
  <2>5. k \in 1..last /\ k - 1 \in 0..last /\ ~(k <= k - 1) BY <1>3, <2>2, <2>4
  <2>6. read[k-1] = SubSeq(list, 1, UpTo((k - 1) * PageSize, list)) BY <2>2, <2>5
  <2>7. read[k] = SubSeq(list, 1, UpTo(k * PageSize, list)) BY <1>6, <2>3, <2>4, <2>5, <2>6
  <2>. QED BY <2>2, <2>7
<1>11. UpTo(last * PageSize, list) = Len(list)
  <2>1. last \in 1..last BY <1>3
  <2>2. ~(last * PageSize < len) BY <1>3, <1>5, <2>1
  <2>. QED BY <2>2 DEF UpTo, len
<1>12. read[last] = SubSeq(list, 1, Len(list))
  <2>1. last \in 0..last BY <1>3
  <2>. QED BY <1>10, <1>11, <2>1
<1>. QED BY <1>1, <1>12, SubSeqFull DEF Lists!PagesCoverList

-----------------------------------------------------------------------------
\* A threshold tells the group that a size is in.
Reached(s) == {t \in Thresholds : s >= t}
LEMMA Greatest ==
  ASSUME NEW s \in Nat, NEW T \in SUBSET Nat, T # {}, \A t \in T : t <= s
  PROVE  \E g \in T : \A t \in T : t <= g
<1>. DEFINE Bounds(b) == \A t \in T : t <= b
            B == {b \in Nat : Bounds(b)}
<1>1. PICK b \in B : \A c \in B : b <= c
  <2>1. B \in SUBSET Nat /\ s \in B OBVIOUS
  <2>. QED BY <2>1, Least
<1>2. b \in T
  <2>1. SUFFICES ASSUME b \notin T PROVE FALSE OBVIOUS
  <2>2. \A t \in T : t \in Nat /\ t <= b /\ t # b BY <1>1, <2>1
  <2>3. PICK t \in T : TRUE OBVIOUS
  <2>4. b - 1 \in Nat /\ ~(b <= b - 1) BY <1>1, <2>2, <2>3
  <2>5. b - 1 \in B BY <1>1, <2>2, <2>4
  <2>. QED BY <1>1, <2>4, <2>5
<1>. QED BY <1>1, <1>2

LEMMA SizeLabelIs ==
  ASSUME NEW s \in Nat
  PROVE  IF Reached(s) = {} THEN Lists!SizeLabel(s) = 0
         ELSE Lists!SizeLabel(s) \in Reached(s) /\ \A t \in Reached(s) : t <= Lists!SizeLabel(s)
<1>0. Thresholds \subseteq Nat BY MaintenanceAssumption DEF MaintenanceAssumption
<1>1. CASE Reached(s) = {} BY <1>1 DEF Reached, Lists!SizeLabel
<1>2. CASE Reached(s) # {}
  <2>1. Reached(s) \in SUBSET Nat /\ \A t \in Reached(s) : t <= s BY <1>0 DEF Reached
  <2>2. \E g \in Reached(s) : \A t \in Reached(s) : t <= g BY <1>2, <2>1, Greatest
  <2>3. \E g \in Thresholds : s >= g /\ \A u \in Thresholds : s >= u => u <= g BY <2>2 DEF Reached
  <2>. DEFINE Is(g) == s >= g /\ \A u \in Thresholds : s >= u => u <= g
              label == CHOOSE t \in Thresholds : Is(t)
  <2>4. \E t \in Thresholds : s >= t BY <2>3
  <2>5. Lists!SizeLabel(s) = label BY <2>4 DEF Lists!SizeLabel
  <2>6. label \in Thresholds /\ Is(label) BY <2>3, Zenon
  <2>. HIDE DEF label
  <2>. QED BY <1>2, <2>5, <2>6 DEF Reached
<1>. QED BY <1>1, <1>2

LEMMA SizeLabels ==
  ASSUME NEW s \in Nat, NEW u \in Nat
  PROVE  Lists!SizeLabel(s) = Lists!SizeLabel(u) <=> Lists!SizeGroup(s) = Lists!SizeGroup(u)
<1>0. Thresholds \subseteq Nat BY MaintenanceAssumption DEF MaintenanceAssumption
<1>1. \A x : Lists!SizeGroup(x) = Cardinality(Reached(x)) BY ListCardinality DEF Lists!SizeGroup, Reached
<1>2. \A x : IsFiniteSet(Reached(x)) BY ListsAssumption, FS_Subset DEF ListsAssumption, Reached
<1>3. Reached(s) \subseteq Reached(u) \/ Reached(u) \subseteq Reached(s)
  <2>1. ASSUME NEW x \in Nat, NEW y \in Nat, x <= y PROVE Reached(x) \subseteq Reached(y)
    <3>1. ASSUME NEW t \in Thresholds, x >= t PROVE y >= t
      <4>1. t \in Nat BY <1>0
      <4>. QED BY <2>1, <3>1, <4>1
    <3>. QED BY <3>1 DEF Reached
  <2>2. s <= u \/ u <= s OBVIOUS
  <2>. QED BY <2>1, <2>2
<1>4. Lists!SizeGroup(s) = Lists!SizeGroup(u) <=> Reached(s) = Reached(u)
  <2>1. ASSUME Cardinality(Reached(s)) = Cardinality(Reached(u)) PROVE Reached(s) = Reached(u)
    BY <1>2, <1>3, <2>1, FS_Subset
  <2>. QED BY <1>1, <2>1
<1>5. ASSUME Reached(s) = Reached(u) PROVE Lists!SizeLabel(s) = Lists!SizeLabel(u)
  <2>1. CASE Reached(s) = {} BY <1>5, <2>1, SizeLabelIs
  <2>2. CASE Reached(s) # {}
    <3>. DEFINE a == Lists!SizeLabel(s)
                b == Lists!SizeLabel(u)
    <3>1. /\ a \in Reached(s) /\ b \in Reached(s) /\ a <= b /\ b <= a BY <1>5, <2>2, SizeLabelIs
    <3>2. a \in Nat /\ b \in Nat BY <1>0, <3>1 DEF Reached
    <3>. QED BY <3>1, <3>2
  <2>. QED BY <2>1, <2>2
<1>6. ASSUME Lists!SizeLabel(s) = Lists!SizeLabel(u) PROVE Reached(s) = Reached(u)
  <2>1. ASSUME NEW x \in Nat, NEW y \in Nat, Lists!SizeLabel(x) = Lists!SizeLabel(y)
        PROVE  Reached(x) \subseteq Reached(y)
    <3>1. SUFFICES ASSUME NEW t \in Reached(x) PROVE t \in Reached(y) OBVIOUS
    <3>. DEFINE g == Lists!SizeLabel(x)
    <3>2. g \in Reached(x) /\ t <= g BY SizeLabelIs
    <3>3. y >= g
      <4>1. CASE Reached(y) = {}
        <5>1. g = 0 BY <2>1, <4>1, SizeLabelIs
        <5>. QED BY <5>1
      <4>2. CASE Reached(y) # {}
        <5>1. g \in Reached(y) BY <2>1, <4>2, SizeLabelIs
        <5>. QED BY <5>1 DEF Reached
      <4>. QED BY <4>1, <4>2
    <3>. HIDE DEF g
    <3>. QED BY <1>0, <3>2, <3>3 DEF Reached
  <2>. QED BY <1>6, <2>1
<1>. QED BY <1>4, <1>5, <1>6

\* The rows from one to another whose keys agree up to a column agree too.
LEMMA KeyShape ==
  ASSUME ShelfTyped, NEW v \in Lists!View, NEW i \in Lists!Rows(v)
  PROVE  /\ PrefixLength(v) \in Nat /\ SortLength(v) \in 2..3
         /\ KeysIn(v)[i] \in KeyOf(PrefixLength(v) + SortLength(v))
         /\ \A n \in 1..PrefixLength(v) : KeysIn(v)[i][n] = PrefixOf(v, Lists!Rows(v), i)[n]
<1>. DEFINE S == Lists!Rows(v)
            m == PrefixLength(v)
            p == PrefixOf(v, S, i)
<1>0. Sortable(v) BY ViewSortable
<1>1. S \in SUBSET Entry /\ i \in Entry BY DEF Lists!Rows
<1>2. KeysIn(v)[i] = p \o Lists!SortKey(v, i) BY <1>1, ListKeyIs DEF KeysIn
<1>3. SortLength(v) \in 2..3 BY <1>0, <1>1, SortKeyFacts
<1>. HIDE DEF S
<1>4. p \in KeyOf(m) /\ m \in Nat BY <1>1, PrefixFacts DEF S
<1>. HIDE DEF m, p
<1>5. i \in Entry BY <1>1
<1>6. /\ WholeKey(p, v, i) \in KeyOf(m + SortLength(v))
      /\ \A n \in 1..m : WholeKey(p, v, i)[n] = p[n]
  BY <1>0, <1>4, <1>5, WholeKeyIs
<1>. QED BY <1>2, <1>3, <1>4, <1>6 DEF S, m, p, WholeKey

LEMMA Together ==
  ASSUME ShelfTyped, NEW v \in Lists!View, NEW list, list = Lists!List(v),
         NEW a \in 1..Len(list), NEW b \in 1..Len(list), NEW c \in 1..Len(list), a <= b, b <= c,
         NEW p \in 0..(PrefixLength(v) + SortLength(v)),
         Agree(KeysIn(v)[list[a]], KeysIn(v)[list[c]], p)
  PROVE  Agree(KeysIn(v)[list[a]], KeysIn(v)[list[b]], p)
<1>. DEFINE S == Lists!Rows(v)
            key == KeysIn(v)
            before == BeforeBy(S, key)
            l == PrefixLength(v) + SortLength(v)
<1>1. IsFiniteSet(S) /\ Chain(S, before) /\ InOrder(S, before, list) BY WholeList
<1>. HIDE DEF before
<1>2. /\ Len(list) \in Nat /\ \A n \in 1..Len(list) : list[n] \in S
      /\ \A m, n \in 1..Len(list) : list[m] \in before[list[n]] <=> m < n
  BY <1>1, OrderFacts
<1>3. \A i, j \in S : j \in before[i] <=> Lists!Less(key[j], key[i]) BY DEF before, BeforeBy
<1>4. \A i \in S : key[i] \in KeyOf(l) /\ l \in Nat
  <2>1. ASSUME NEW i \in S PROVE key[i] \in KeyOf(l) /\ l \in Nat BY KeyShape
  <2>. QED BY <2>1
<1>. DEFINE ka == key[list[a]]
            kb == key[list[b]]
            kc == key[list[c]]
<1>5. ka \in KeyOf(l) /\ kb \in KeyOf(l) /\ kc \in KeyOf(l) /\ l \in Nat BY <1>2, <1>4
<1>6. p \in 0..l /\ Agree(ka, kc, p) OBVIOUS
<1>7. (a < b => Lists!Less(ka, kb)) /\ (b < c => Lists!Less(kb, kc)) BY <1>2, <1>3
<1>8. a = b => Agree(ka, kb, p) BY DEF Agree
<1>9. b = c => Agree(ka, kb, p) BY <1>6
<1>10. (a = b \/ a < b) /\ (b = c \/ b < c) BY <1>2
<1>. HIDE DEF ka, kb, kc, l, key
<1>11. Agree(ka, kb, p) BY <1>5, <1>6, <1>7, <1>8, <1>9, <1>10, LessBetween
<1>. QED BY <1>11 DEF ka, kb, key

LEMMA SameFolder ==
  ASSUME ShelfTyped, NEW v \in Lists!View, v.kind # "duplicates", v.group = "folder",
         NEW i \in Lists!Rows(v), NEW j \in Lists!Rows(v)
  PROVE  DirOf[i] = DirOf[j] <=> Agree(KeysIn(v)[i], KeysIn(v)[j], PrefixLength(v))
<1>. DEFINE S == Lists!Rows(v)
            P(x) == PrefixOf(v, S, x)
            m == PrefixLength(v)
            g == GroupLength(v)
<1>0. Sortable(v) /\ S \in SUBSET Entry BY ViewSortable DEF Lists!Rows
<1>1. /\ P(i) = Lists!GroupOrder(v, Lists!First(v, {k \in S : DirOf[k] = DirOf[i]})) \o <<DirOf[i]>>
      /\ P(j) = Lists!GroupOrder(v, Lists!First(v, {k \in S : DirOf[k] = DirOf[j]})) \o <<DirOf[j]>>
      /\ m = g + 1
  BY DEF PrefixOf, PrefixLength
<1>2. DirOf[i] = DirOf[j] => P(i) = P(j)
  <2>. DEFINE Of(d) == Lists!GroupOrder(v, Lists!First(v, {k \in S : DirOf[k] = d})) \o <<d>>
  <2>1. P(i) = Of(DirOf[i]) /\ P(j) = Of(DirOf[j]) BY <1>1
  <2>. HIDE DEF Of, P
  <2>. QED BY <2>1, Zenon
<1>. HIDE DEF S
<1>3. P(i)[m] = DirOf[i] /\ P(j)[m] = DirOf[j] /\ g \in Nat
  <2>1. i \in S /\ j \in S BY DEF S
  <2>2. /\ (Lists!GroupOrder(v, Lists!First(v, {k \in S : DirOf[k] = DirOf[i]})) \o <<DirOf[i]>>)[g + 1] = DirOf[i]
        /\ g \in Nat
    BY <1>0, <2>1, FolderPrefix
  <2>3. (Lists!GroupOrder(v, Lists!First(v, {k \in S : DirOf[k] = DirOf[j]})) \o <<DirOf[j]>>)[g + 1] = DirOf[j]
    BY <1>0, <2>1, FolderPrefix
  <2>. HIDE DEF P, m, g
  <2>. QED BY <1>1, <2>2, <2>3
<1>4. m \in 1..m BY <1>1, <1>3
<1>5. \A n \in 1..m : KeysIn(v)[i][n] = P(i)[n] /\ KeysIn(v)[j][n] = P(j)[n] BY KeyShape DEF S
<1>. HIDE DEF P, m
<1>. QED BY <1>2, <1>3, <1>4, <1>5 DEF Agree, m

LEMMA SameGroup ==
  ASSUME ShelfTyped, NEW v \in Lists!View, v.kind # "duplicates", v.group \in {"day", "size", "letter"},
         NEW i \in Lists!Rows(v), NEW j \in Lists!Rows(v)
  PROVE  Lists!Label(v, i) = Lists!Label(v, j) <=> Agree(KeysIn(v)[i], KeysIn(v)[j], PrefixLength(v))
<1>. DEFINE S == Lists!Rows(v)
            P(x) == PrefixOf(v, S, x)
            X(k) == CASE v.group = "day" -> Lists!Day(shelf[k].time)
                      [] v.group = "size" -> Lists!SizeGroup(shelf[k].size)
                      [] OTHER -> Name[k].letter
            up == v.up
<1>0. up \in BOOLEAN BY ViewSortable, Zenon DEF Sortable
<1>1. i \in Entry /\ j \in Entry BY DEF Lists!Rows
<1>2. P(i) = <<Lists!Signed(up, X(i))>> /\ P(j) = <<Lists!Signed(up, X(j))>> /\ PrefixLength(v) = 1
  BY DEF PrefixOf, PrefixLength
<1>3. ASSUME NEW k \in Entry PROVE X(k) \in Int
  <2>1. Lists!Day(shelf[k].time) \in Int BY Rowed DEF Lists!Day
  <2>2. Lists!SizeGroup(shelf[k].size) \in Int BY SizeGroupFacts
  <2>3. Name[k].letter \in Int BY Rowed
  <2>. QED BY <2>1, <2>2, <2>3
<1>4. Lists!Label(v, i) = Lists!Label(v, j) <=> X(i) = X(j)
  <2>1. CASE v.group = "size"
    <3>1. /\ Lists!Label(v, i) = Lists!SizeLabel(shelf[i].size) /\ Lists!Label(v, j) = Lists!SizeLabel(shelf[j].size)
          /\ X(i) = Lists!SizeGroup(shelf[i].size) /\ X(j) = Lists!SizeGroup(shelf[j].size)
      BY <2>1 DEF Lists!Label
    <3>2. shelf[i].size \in Nat /\ shelf[j].size \in Nat BY <1>1, Rowed
    <3>. HIDE DEF X
    <3>. QED BY <3>1, <3>2, SizeLabels
  <2>2. CASE v.group # "size" BY <2>2 DEF Lists!Label
  <2>. QED BY <2>1, <2>2
<1>. HIDE DEF up, X
<1>5. Lists!Signed(up, X(i)) = Lists!Signed(up, X(j)) <=> X(i) = X(j) BY <1>0, <1>1, <1>3, SignedFacts DEF SignedInt
<1>6. P(i)[1] = Lists!Signed(up, X(i)) /\ P(j)[1] = Lists!Signed(up, X(j)) BY <1>2
<1>7. \A n \in 1..1 : KeysIn(v)[i][n] = P(i)[n] /\ KeysIn(v)[j][n] = P(j)[n] BY <1>2, KeyShape
<1>. HIDE DEF P
<1>8. Agree(KeysIn(v)[i], KeysIn(v)[j], 1) <=> KeysIn(v)[i][1] = KeysIn(v)[j][1] BY DEF Agree
<1>. QED BY <1>2, <1>4, <1>5, <1>6, <1>7, <1>8

KeptTogether(v, i) == v.group # "" \/ Lists!Label(v, i) \notin Numerals
LEMMA LabelsTogether ==
  ASSUME ShelfTyped, NEW v \in Lists!View, v.kind # "duplicates", ~Lists!IsScale(v),
         NEW list, list = Lists!List(v),
         NEW a \in 1..Len(list), NEW b \in 1..Len(list), NEW c \in 1..Len(list), a <= b, b <= c,
         Lists!Label(v, list[a]) = Lists!Label(v, list[c]),
         KeptTogether(v, list[c])
  PROVE  Lists!Label(v, list[b]) = Lists!Label(v, list[c])
<1>. DEFINE S == Lists!Rows(v)
            i == list[a]
            j == list[b]
            k == list[c]
<1>1. i \in S /\ j \in S /\ k \in S
  <2>1. IsFiniteSet(S) /\ Chain(S, BeforeBy(S, KeysIn(v))) /\ InOrder(S, BeforeBy(S, KeysIn(v)), list) BY WholeList
  <2>. QED BY <2>1, OrderFacts
<1>2. /\ PrefixLength(v) \in Nat /\ SortLength(v) \in 2..3 BY <1>1, KeyShape
<1>3. CASE v.group # ""
  <2>1. \A x, y \in S : Lists!Label(v, x) = Lists!Label(v, y) <=> Agree(KeysIn(v)[x], KeysIn(v)[y], PrefixLength(v))
    <3>1. CASE v.group = "folder"
      <4>1. \A x : Lists!Label(v, x) = DirOf[x] BY <3>1 DEF Lists!Label
      <4>. QED BY <3>1, <4>1, SameFolder
    <3>2. CASE v.group \in {"day", "size", "letter"} BY <3>2, SameGroup
    <3>3. v.group \in {"", "folder", "day", "size", "letter"} BY ViewParts
    <3>. QED BY <1>3, <3>1, <3>2, <3>3
  <2>2. PrefixLength(v) \in 0..(PrefixLength(v) + SortLength(v)) BY <1>2
  <2>3. Agree(KeysIn(v)[i], KeysIn(v)[k], PrefixLength(v)) BY <1>1, <2>1
  <2>4. Agree(KeysIn(v)[i], KeysIn(v)[j], PrefixLength(v)) BY <2>2, <2>3, Together
  <2>. QED BY <1>1, <2>1, <2>4
<1>4. CASE v.group = ""
  <2>1. v.col = "name" /\ \A x : Lists!Label(v, x) = Name[x].letter BY <1>4 DEF Lists!IsScale, Lists!Label
  <2>2. i \in Entry /\ j \in Entry /\ k \in Entry BY <1>1 DEF Lists!Rows
  <2>. DEFINE up == v.up
              key(x) == Lists!SortKey(v, x)
              before == BeforeBy(S, KeysOf(v, S))
              s(x) == Lists!Signed(up, Name[x].key)
  <2>3. Sortable(v) /\ up \in BOOLEAN BY ViewSortable, Zenon DEF Sortable
  <2>4. ASSUME NEW x \in Entry
        PROVE  key(x) \in KeyOf(3) /\ key(x)[1] = s(x) /\ s(x) \in Int /\ Name[x].key \in Int
    <3>1. key(x) = Lists!Names(up, x) BY <2>1 DEF Lists!SortKey
    <3>2. Name[x].key \in Int BY Rowed
    <3>. HIDE DEF up
    <3>3. Lists!Names(up, x) \in KeyOf(3) /\ Lists!Names(up, x)[1] = s(x) BY <2>3, NameKey
    <3>4. s(x) \in Int BY <2>3, <3>2, SignedFacts DEF SignedInt
    <3>. QED BY <3>1, <3>2, <3>3, <3>4
  <2>5. S \in SUBSET Entry /\ list = Lists!Ordered(S, KeysOf(v, S)) BY <1>4, PlainList DEF Lists!Rows
  <2>6. IsFiniteSet(S) /\ Chain(S, before) /\ InOrder(S, before, list) BY <2>3, <2>5, SortedList
  <2>7. \A x, y \in S : x \in before[y] <=> Lists!Less(key(x), key(y)) BY DEF BeforeBy, KeysOf
  <2>. HIDE DEF before, key, s, up
  <2>8. ASSUME NEW m \in 1..Len(list), NEW n \in 1..Len(list), m <= n PROVE s(list[m]) <= s(list[n])
    <3>1. /\ Len(list) \in Nat /\ list[m] \in S /\ list[n] \in S /\ (list[m] \in before[list[n]] <=> m < n)
      BY <2>6, OrderFacts
    <3>2. list[m] \in Entry /\ list[n] \in Entry BY <2>5, <3>1
    <3>. DEFINE x == list[m]
                y == list[n]
    <3>3. CASE m = n BY <2>4, <3>2, <3>3
    <3>4. CASE m # n
      <4>1. m < n BY <2>8, <3>1, <3>4
      <4>2. Lists!Less(key(x), key(y)) BY <2>7, <3>1, <4>1
      <4>3. key(x) \in KeyOf(3) /\ key(y) \in KeyOf(3) BY <2>4, <3>2
      <4>4. PICK e \in 1..3 : key(x)[e] < key(y)[e] /\ Agree(key(x), key(y), e-1) BY <4>2, <4>3, LessIs
      <4>5. key(x)[1] = s(x) /\ key(y)[1] = s(y) /\ s(x) \in Int /\ s(y) \in Int BY <2>4, <3>2
      <4>6. CASE e = 1 BY <4>4, <4>5, <4>6
      <4>7. CASE e # 1
        <5>1. 1 \in 1..e-1 BY <4>7
        <5>2. key(x)[1] = key(y)[1] BY <4>4, <5>1 DEF Agree
        <5>. QED BY <4>5, <5>2
      <4>. QED BY <4>6, <4>7
    <3>. QED BY <3>3, <3>4
  <2>9. s(i) <= s(j) /\ s(j) <= s(k) BY <2>8
  <2>10. /\ Name[i].letter = Name[k].letter /\ Name[i].letter \notin Numerals /\ Name[k].letter \notin Numerals
    BY <1>4, <2>1 DEF KeptTogether
  <2>11. \A x, y, z \in Entry :
            /\ Name[x].key <= Name[y].key /\ Name[y].key <= Name[z].key
            /\ Name[x].letter = Name[z].letter /\ Name[x].letter \notin Numerals
            => Name[y].letter = Name[x].letter
    BY ListsAssumption DEF ListsAssumption
  <2>12. \/ Name[i].key <= Name[j].key /\ Name[j].key <= Name[k].key
         \/ Name[k].key <= Name[j].key /\ Name[j].key <= Name[i].key
    <3>1. Name[i].key \in Int /\ Name[j].key \in Int /\ Name[k].key \in Int BY <2>2, <2>4
    <3>2. \A x : s(x) = IF up THEN Name[x].key ELSE -Name[x].key BY DEF s, Lists!Signed
    <3>3. CASE up BY <2>9, <3>1, <3>2, <3>3
    <3>4. CASE ~up
      <4>1. s(i) = -Name[i].key /\ s(j) = -Name[j].key /\ s(k) = -Name[k].key BY <3>2, <3>4
      <4>2. -Name[i].key <= -Name[j].key /\ -Name[j].key <= -Name[k].key BY <2>9, <4>1
      <4>3. \A p, q \in Int : -p <= -q => q <= p OBVIOUS
      <4>. QED BY <3>1, <4>2, <4>3
    <3>. QED BY <3>3, <3>4
  <2>13. Name[j].letter = Name[k].letter BY <2>2, <2>10, <2>11, <2>12
  <2>. QED BY <2>1, <2>13
<1>. QED BY <1>3, <1>4

-----------------------------------------------------------------------------
\* The rows that a scale opens are rows of the list, the first and the last among them.
LEMMA ScaleFacts ==
  ASSUME NEW total \in Nat \ {0}, NEW count, count = IF total < MaxAnchors THEN total ELSE MaxAnchors
  PROVE  /\ count \in Nat \ {0}
         /\ \A k \in 0..count-1 : Lists!ScaleIndex(k, count, total) \in 0..total-1
         /\ Lists!ScaleIndex(0, count, total) = 0
         /\ Lists!ScaleIndex(count - 1, count, total) = total - 1
<1>1. MaxAnchors \in Nat \ {0, 1} BY ListsAssumption DEF ListsAssumption
<1>2. count \in Nat \ {0} /\ (count = 1 => total = 1) BY <1>1
<1>3. CASE count = 1
  <2>1. \A k : Lists!ScaleIndex(k, count, total) = 0 BY <1>3 DEF Lists!ScaleIndex
  <2>. QED BY <1>2, <1>3, <2>1
<1>4. CASE count # 1
  <2>. DEFINE c == count - 1
              t == total - 1
              d == 2 * c
              N(k) == 2 * k * t + c
  <2>1. c \in Nat \ {0} /\ t \in Nat /\ d \in Nat \ {0} /\ d = c + c BY <1>2, <1>4
  <2>2. ASSUME NEW k \in Int PROVE Lists!ScaleIndex(k, count, total) = N(k) \div d
    <3>1. 2 * k * (total - 1) + count - 1 = N(k) /\ 2 * (count - 1) = d BY <1>2, <2>1
    <3>. QED BY <1>4, <3>1 DEF Lists!ScaleIndex
  <2>. HIDE DEF c, t, N
  <2>3. N(0) = c /\ N(c) = d * t + c
    <3>1. 2 * 0 * t = 0 BY <2>1
    <3>2. 2 * c * t = d * t OBVIOUS
    <3>. QED BY <2>1, <3>1, <3>2 DEF N
  <2>4. N(0) \div d = 0
    <3>1. 0 * d <= c /\ c < (0 + 1) * d /\ c \in Nat BY <2>1
    <3>. QED BY <2>1, <2>3, <3>1, DivIs
  <2>5. N(c) \div d = t
    <3>1. t * d <= d * t + c /\ d * t + c < (t + 1) * d /\ d * t + c \in Nat BY <2>1
    <3>. QED BY <2>1, <2>3, <3>1, DivIs
  <2>6. ASSUME NEW k \in 0..c PROVE N(k) \div d \in 0..t
    <3>1. 2 * k * t \in Nat /\ 2 * k * t <= d * t BY <2>1
    <3>2. N(k) \in Nat /\ N(k) < d * t + d BY <2>1, <3>1 DEF N
    <3>. DEFINE n == N(k)
                q == n \div d
    <3>3. q \in Nat /\ n % d \in 0..d-1 /\ n = q * d + (n % d) BY <2>1, <3>2, Division
    <3>. HIDE DEF n, q
    <3>4. n \in Nat /\ n < d * t + d BY <3>2 DEF n
    <3>5. q <= t
      <4>1. SUFFICES ASSUME q >= t + 1 PROVE FALSE BY <2>1, <3>3
      <4>2. q * d >= (t + 1) * d BY <2>1, <3>3, <4>1
      <4>3. (t + 1) * d = d * t + d BY <2>1
      <4>. QED BY <2>1, <3>3, <3>4, <4>2, <4>3
    <3>. QED BY <2>1, <3>3, <3>5 DEF q, n
  <2>7. c \in Int /\ 0 \in Int /\ \A k \in 0..count-1 : k \in Int /\ k \in 0..c BY <1>2, <2>1 DEF c
  <2>. QED BY <1>2, <2>2, <2>4, <2>5, <2>6, <2>7 DEF c, t
<1>. QED BY <1>3, <1>4

Anchor(x) == [index |-> x, page |-> Lists!PageOf(x)]
LEMMA AnchorParts == ASSUME NEW x PROVE Anchor(x).index = x /\ Anchor(x).page = Lists!PageOf(x)
BY DEF Anchor

\* The anchors of a list open rows of it.
AnchorsOf(v, list) == IF Lists!IsScale(v) THEN Lists!Scale(Len(list)) ELSE Lists!GroupStarts(v, list)
LEMMA AnchorsAre ==
  ASSUME NEW v, NEW S, NEW list \in Seq(S)
  PROVE  \A a \in AnchorsOf(v, list) : \E x \in 0..Len(list)-1 : a = Anchor(x)
<1>. DEFINE len == Len(list)
            anchors == AnchorsOf(v, list)
<1>1. len \in Nat OBVIOUS
<1>2. CASE Lists!IsScale(v)
  <2>. DEFINE count == IF len < MaxAnchors THEN len ELSE MaxAnchors
  <2>1. anchors = {Anchor(Lists!ScaleIndex(k, count, len)) : k \in 0..count-1} BY <1>2 DEF Lists!Scale, Anchor, AnchorsOf
  <2>2. ASSUME NEW k \in 0..count-1 PROVE Lists!ScaleIndex(k, count, len) \in 0..len-1
    <3>1. MaxAnchors \in Nat BY ListsAssumption DEF ListsAssumption
    <3>2. len # 0 BY <1>1, <3>1
    <3>. HIDE DEF len
    <3>. QED BY <1>1, <3>2, ScaleFacts
  <2>. QED BY <2>1, <2>2
<1>3. CASE ~Lists!IsScale(v)
  <2>. DEFINE starts == {m \in DOMAIN list : \A k \in 1..m-1 : Lists!Label(v, list[k]) # Lists!Label(v, list[m])}
  <2>1. anchors = {Anchor(n - 1) : n \in starts} BY <1>3 DEF Lists!GroupStarts, Anchor, AnchorsOf
  <2>2. \A n \in starts : n - 1 \in 0..len-1 BY <1>1
  <2>. HIDE DEF starts, len
  <2>. QED BY <2>1, <2>2 DEF len
<1>. QED BY <1>2, <1>3

LEMMA AnchorsOpen ==
  ASSUME ShelfTyped, view \in Lists!View, view.kind # "duplicates"
  PROVE  Lists!AnchorsOpenGroups(Lists!List(view), Lists!Anchors(view))
<1>. DEFINE list == Lists!List(view)
            len == Len(list)
            S == Lists!Rows(view)
            L(n) == Lists!Label(view, list[n])
            anchors == AnchorsOf(view, list)
            opened == {a.index : a \in anchors}
            Opens(x, n) == x < n /\ \A y \in opened : y < n => y <= x
            Opening(n) == CHOOSE x \in opened : Opens(x, n)
<1>1. list \in Seq(S) /\ len \in Nat
  <2>1. IsFiniteSet(S) /\ Chain(S, BeforeBy(S, KeysIn(view))) /\ InOrder(S, BeforeBy(S, KeysIn(view)), list)
    BY WholeList
  <2>. HIDE DEF list, S
  <2>. QED BY <2>1, OrderFacts
<1>2. Lists!Anchors(view) = anchors
  <2>1. Lists!AnchorList(view) = list BY DEF Lists!AnchorList, Lists!List, Lists!ListKey
  <2>. HIDE DEF list
  <2>. QED BY <2>1 DEF Lists!Anchors, AnchorsOf
<1>3. \A a \in anchors : \E x \in 0..len-1 : a = Anchor(x)
  <2>. HIDE DEF list, S
  <2>. QED BY <1>1, AnchorsAre
<1>4. ASSUME NEW a \in anchors
      PROVE  \E n \in 1..PageSize :
                n \in DOMAIN Lists!Page(list, a.page).items /\ Lists!Page(list, a.page).items[n] = list[a.index + 1]
  <2>1. PICK x \in 0..len-1 : a = Anchor(x) BY <1>3
  <2>2. a.index = x /\ a.page = Lists!PageOf(x) BY <2>1, AnchorParts
  <2>3. x \in Nat /\ x < len BY <1>1
  <2>. HIDE DEF list, S
  <2>4. /\ (x % PageSize) + 1 \in 1..PageSize
        /\ (x % PageSize) + 1 \in DOMAIN Lists!Page(list, Lists!PageOf(x)).items
        /\ Lists!Page(list, Lists!PageOf(x)).items[(x % PageSize) + 1] = list[x + 1]
    BY <1>1, <2>3, RowOnPage
  <2>. DEFINE n == (x % PageSize) + 1
  <2>. HIDE DEF n
  <2>5. n \in 1..PageSize /\ n \in DOMAIN Lists!Page(list, a.page).items
        /\ Lists!Page(list, a.page).items[n] = list[a.index + 1]
    BY <2>2, <2>4 DEF n
  <2>. QED BY <2>5
<1>. HIDE DEF list, S
<1>5. ASSUME Lists!IsScale(view), list # <<>> PROVE {0, Len(list) - 1} \subseteq opened
  <2>. DEFINE count == IF len < MaxAnchors THEN len ELSE MaxAnchors
              I(k) == Lists!ScaleIndex(k, count, len)
  <2>1. len \in Nat \ {0} BY <1>1, <1>5
  <2>2. count \in Nat \ {0} /\ I(0) = 0 /\ I(count - 1) = len - 1
    <3>. HIDE DEF len
    <3>. QED BY <2>1, ScaleFacts
  <2>3. anchors = {Anchor(I(k)) : k \in 0..count-1} BY <1>5 DEF Lists!Scale, Anchor, AnchorsOf
  <2>. HIDE DEF I, count, len
  <2>4. 0 \in 0..count-1 /\ count - 1 \in 0..count-1 BY <2>2
  <2>5. Anchor(0) \in anchors /\ Anchor(len - 1) \in anchors BY <2>2, <2>3, <2>4
  <2>. HIDE DEF anchors
  <2>6. 0 \in opened /\ len - 1 \in opened BY <2>5, AnchorParts
  <2>. QED BY <2>6 DEF len
<1>6. ASSUME ~Lists!IsScale(view), NEW n \in DOMAIN list, KeptTogether(view, list[n])
      PROVE  Lists!Label(view, list[n]) = Lists!Label(view, list[Opening(n) + 1])
  <2>. DEFINE Starts(m) == \A k \in 1..m-1 : L(k) # L(m)
              Same == {m \in 1..len : L(m) = L(n)}
  <2>1. n \in 1..len BY <1>1
  <2>2. anchors = {Anchor(m - 1) : m \in {k \in DOMAIN list : Starts(k)}} BY <1>6 DEF Lists!GroupStarts, Anchor, AnchorsOf
  <2>3. PICK m \in Same : \A k \in Same : m <= k
    <3>1. Same \in SUBSET Nat /\ n \in Same BY <1>1, <2>1
    <3>. QED BY <3>1, Least
  <2>4. m \in 1..len /\ L(m) = L(n) /\ m <= n BY <2>1, <2>3
  <2>. HIDE DEF anchors, len
  <2>5. Starts(m)
    <3>1. SUFFICES ASSUME NEW k \in 1..m-1, L(k) = L(m) PROVE FALSE OBVIOUS
    <3>2. k \in 1..len /\ ~(m <= k) BY <1>1, <2>4
    <3>. QED BY <2>3, <2>4, <3>1, <3>2
  <2>6. DOMAIN list = 1..len BY <1>1 DEF len
  <2>7. m - 1 \in opened
    <3>1. Anchor(m - 1) \in anchors BY <2>2, <2>4, <2>5, <2>6
    <3>. QED BY <3>1, AnchorParts
  <2>8. ASSUME NEW y \in opened, y < n PROVE y <= m - 1
    <3>1. PICK a \in anchors : y = a.index OBVIOUS
    <3>2. PICK k \in 1..len : a = Anchor(k - 1) /\ Starts(k) BY <2>2, <2>6
    <3>3. y = k - 1 BY <3>1, <3>2, AnchorParts
    <3>4. k <= n BY <1>1, <2>1, <2>8, <3>3
    <3>5. SUFFICES ASSUME m < k PROVE FALSE BY <1>1, <2>4, <3>3
    <3>6. L(k) = L(n)
      <4>1. m \in 1..Len(list) /\ k \in 1..Len(list) /\ n \in 1..Len(list) /\ m <= k BY <1>1, <2>1, <2>4, <3>5 DEF len
      <4>2. list = Lists!List(view) BY DEF list
      <4>3. Lists!Label(view, list[m]) = Lists!Label(view, list[n]) BY <2>4
      <4>. QED BY <1>6, <3>4, <4>1, <4>2, <4>3, LabelsTogether
    <3>7. m \in 1..k-1 BY <1>1, <2>4, <3>5
    <3>. QED BY <2>4, <3>2, <3>6, <3>7
  <2>9. Opens(m - 1, n) BY <1>1, <2>1, <2>4, <2>8
  <2>10. Opening(n) \in opened /\ Opens(Opening(n), n) BY <2>7, <2>9, Zenon
  <2>11. Opening(n) \in Int
    <3>1. ASSUME NEW y \in opened PROVE y \in Int
      <4>1. PICK a \in anchors : y = a.index OBVIOUS
      <4>2. PICK x \in 0..len-1 : a = Anchor(x) BY <1>3
      <4>. QED BY <4>1, <4>2, AnchorParts
    <3>. QED BY <2>10, <3>1, Zenon
  <2>. DEFINE o == Opening(n)
  <2>12. o <= m - 1 /\ m - 1 <= o BY <2>7, <2>8, <2>9, <2>10
  <2>. HIDE DEF o
  <2>13. o + 1 = m
    <3>1. o \in Int /\ m \in Int BY <2>4, <2>11 DEF o
    <3>. QED BY <2>12, <3>1
  <2>. QED BY <2>4, <2>13 DEF o
<1>. DEFINE OpenRows == \A a \in anchors : \E n \in 1..PageSize :
                n \in DOMAIN Lists!Page(list, a.page).items /\ Lists!Page(list, a.page).items[n] = list[a.index + 1]
            OpenGroups == \A n \in DOMAIN list : KeptTogether(view, list[n]) =>
                Lists!Label(view, list[n]) = Lists!Label(view, list[Opening(n) + 1])
            OpenEnds == list # <<>> => {0, Len(list) - 1} \subseteq opened
<1>7. OpenRows BY <1>4
<1>8. Lists!IsScale(view) => OpenEnds BY <1>5
<1>9. ~Lists!IsScale(view) => OpenGroups BY <1>6
<1>10. /\ OpenRows
       /\ IF Lists!IsScale(view) THEN OpenEnds ELSE OpenGroups
  <2>. HIDE DEF OpenRows, OpenEnds, OpenGroups
  <2>. QED BY <1>7, <1>8, <1>9
<1>11. Lists!AnchorsOpenGroups(list, anchors)
  <2>. HIDE DEF anchors
  <2>. QED BY <1>10, Zenon DEF Lists!AnchorsOpenGroups, Lists!Grouped, KeptTogether
<1>. QED BY <1>2, <1>11 DEF list

LEMMA PlacesFit ==
  ASSUME ShelfTyped, view \in Lists!View
  PROVE  Lists!PlacesAgree
<1>. DEFINE S == Lists!Rows(view)
            list == Lists!List(view)
            before == BeforeBy(S, KeysIn(view))
<1>1. IsFiniteSet(S) /\ Chain(S, before) /\ InOrder(S, before, list) BY WholeList
<1>. HIDE DEF before
<1>2. list \in Seq(S) /\ \A n \in DOMAIN list : Lists!Number(list, list[n]) = n
  <2>. HIDE DEF list, S
  <2>1. list \in Seq(S) /\ DOMAIN list = 1..Len(list) BY <1>1, OrderFacts
  <2>. QED BY <1>1, <2>1, NumberInList
<1>3. Lists!PagesCoverList(list) /\ Lists!PositionsAreRight(list)
  <2>. HIDE DEF list, S
  <2>. QED BY <1>2, PagesCover, PositionsRight
<1>4. view.kind # "duplicates" => Lists!AnchorsOpenGroups(list, Lists!Anchors(view)) BY AnchorsOpen
<1>. QED BY <1>3, <1>4 DEF Lists!PlacesAgree

-----------------------------------------------------------------------------
(* Duplicates                                                              *)

\* Among the copies of a file one was imported before all others.
LEMMA Oldest ==
  ASSUME ShelfTyped, NEW S \in SUBSET Entry, S # {}
  PROVE  \E f \in S : \A k \in S : ~Lists!Older(k, f)
<1>0. Entry \subseteq Nat /\ \A k \in Entry : shelf[k].imported \in Nat
  BY MaintenanceAssumption DEF MaintenanceAssumption, ShelfTyped, Lists!AssetRow
<1>. DEFINE Times == {shelf[k].imported : k \in S}
<1>1. PICK t \in Times : \A u \in Times : t <= u
  <2>1. Times \in SUBSET Nat /\ Times # {} BY <1>0
  <2>. QED BY <2>1, Least
<1>. DEFINE First == {k \in S : shelf[k].imported = t}
<1>2. PICK f \in First : \A k \in First : f <= k
  <2>1. First \in SUBSET Nat /\ First # {} BY <1>0, <1>1
  <2>. QED BY <2>1, Least
<1>3. ASSUME NEW k \in S, Lists!Older(k, f) PROVE FALSE
  <2>1. k \in Nat /\ f \in Nat /\ shelf[k].imported \in Nat /\ shelf[f].imported \in Nat BY <1>0
  <2>2. shelf[k].imported < shelf[f].imported \/ (shelf[k].imported = shelf[f].imported /\ k < f)
    BY <1>3, <2>1, LessOfTwo DEF Lists!Older
  <2>3. shelf[f].imported = t /\ t <= shelf[k].imported BY <1>1, <1>2
  <2>4. shelf[k].imported = t => f <= k BY <1>2
  <2>. QED BY <2>1, <2>2, <2>3, <2>4
<1>. QED BY <1>2, <1>3

LEMMA OneIsKept == ASSUME ShelfTyped, HashInv PROVE Lists!SelectionKeepsOne
<1>. SUFFICES ASSUME NEW i \in Lists!Selection
              PROVE  \E j \in Lists!Twins(i) \ Lists!Selection :
                        shelf[j].content = shelf[i].content \/ {i, j} \cap tainted # {}
  BY DEF Lists!SelectionKeepsOne
<1>. DEFINE Copies == Lists!Twins(i) \cup {i}
<1>1. i \in Entry /\ Lists!Known(i) BY DEF Lists!Selection
<1>2. PICK k \in Lists!Twins(i) : Lists!Older(k, i) BY DEF Lists!Selection
<1>3. PICK j \in Copies : \A o \in Copies : ~Lists!Older(o, j)
  <2>1. Copies \in SUBSET Entry /\ Copies # {} BY <1>1 DEF Lists!Twins
  <2>. QED BY <2>1, Oldest
<1>4. j # i BY <1>2, <1>3
<1>5. Lists!Twins(j) \subseteq Copies BY <1>4 DEF Lists!Twins
<1>6. j \in Lists!Twins(i) \ Lists!Selection BY <1>3, <1>4, <1>5 DEF Lists!Selection
<1>7. shelf[j].hash = shelf[i].hash /\ shelf[j].hash # Lists!NULL /\ j \in Entry BY <1>6 DEF Lists!Twins
<1>8. shelf[j].content = shelf[i].content \/ {i, j} \cap tainted # {} BY <1>1, <1>7 DEF HashInv
<1>. QED BY <1>6, <1>8

LEMMA ListsBegin == ASSUME Lists!BrowseInit PROVE ShelfTyped /\ HashingTyped /\ HashInv
BY MaintenanceAssumption DEF MaintenanceAssumption, Lists!BrowseInit, Lists!NoFile, Lists!NULL,
   ShelfTyped, HashingTyped, HashInv

LEMMA RescannedFacts ==
  ASSUME ShelfTyped, NEW i \in Entry, NEW t \in Nat, NEW s \in Nat, NEW c \in Nat
  PROVE  LET S == Lists!Rescanned(i, t, s, c) IN
         /\ S \in [Entry -> Lists!AssetRow] /\ S[i].hash = Lists!NULL
         /\ \A k \in Entry \ {i} : S[k] = shelf[k]
<1>. DEFINE r == [shelf[i] EXCEPT !.time = t, !.size = s, !.content = c, !.hash = Lists!NULL, !.ready = FALSE]
<1>1. r \in Lists!AssetRow /\ r.hash = Lists!NULL BY DEF ShelfTyped, Lists!AssetRow, Lists!NULL
<1>2. Lists!Rescanned(i, t, s, c) = [shelf EXCEPT ![i] = r] BY DEF Lists!Rescanned, ShelfTyped
<1>. HIDE DEF r
<1>. QED BY <1>1, <1>2 DEF ShelfTyped

LEMMA RowChangeSteps ==
  ASSUME ShelfTyped, HashingTyped, HashInv, Lists!RowChanges PROVE ShelfTyped' /\ HashingTyped' /\ HashInv'
<1>1. PICK i \in Entry :
        \/ /\ \/ \E time \in 0..3 : shelf' = Lists!Rescanned(i, time, shelf[i].size, shelf[i].content)
              \/ \E size \in {0} \cup Thresholds :
                    shelf' = Lists!Rescanned(i, shelf[i].time, size, shelf[i].content)
              \/ \E content \in 1..2 : shelf' = Lists!Rescanned(i, shelf[i].time, shelf[i].size, content)
           /\ tainted' = tainted \ {i}
        \/ /\ shelf' \in {[shelf EXCEPT ![i].live = FALSE], [shelf EXCEPT ![i].hidden = ~@],
                           [shelf EXCEPT ![i].ready = TRUE], [shelf EXCEPT ![i].tagged = ~@]}
           /\ UNCHANGED tainted
  BY DEF Lists!RowChanges
<1>2. HashingTyped' BY DEF Lists!RowChanges, HashingTyped, Lists!NoFile
<1>3. shelf[i].time \in Nat /\ shelf[i].size \in Nat /\ shelf[i].content \in Nat
  BY DEF ShelfTyped, Lists!AssetRow
<1>4. CASE tainted' = tainted \ {i} /\ \E t, s, c \in Nat : shelf' = Lists!Rescanned(i, t, s, c)
  <2>1. PICK t \in Nat, s \in Nat, c \in Nat : shelf' = Lists!Rescanned(i, t, s, c) BY <1>4
  <2>2. /\ shelf' \in [Entry -> Lists!AssetRow] /\ shelf'[i].hash = Lists!NULL
        /\ \A k \in Entry \ {i} : shelf'[k] = shelf[k]
    BY <2>1, RescannedFacts
  <2>3. HashInv' BY <1>4, <2>2 DEF HashInv, Lists!NULL
  <2>. QED BY <1>2, <1>4, <2>2, <2>3 DEF ShelfTyped
<1>5. CASE /\ shelf' \in {[shelf EXCEPT ![i].live = FALSE], [shelf EXCEPT ![i].hidden = ~@],
                           [shelf EXCEPT ![i].ready = TRUE], [shelf EXCEPT ![i].tagged = ~@]}
           /\ UNCHANGED tainted
  <2>1. /\ shelf' \in [Entry -> Lists!AssetRow]
        /\ \A k \in Entry : shelf'[k].hash = shelf[k].hash /\ shelf'[k].content = shelf[k].content
    <3>. DEFINE gone == [shelf[i] EXCEPT !.live = FALSE]
                h == ~shelf[i].hidden
                hidden == [shelf[i] EXCEPT !.hidden = h]
                ready == [shelf[i] EXCEPT !.ready = TRUE]
                t == ~shelf[i].tagged
                tagged == [shelf[i] EXCEPT !.tagged = t]
    <3>1. shelf' \in {[shelf EXCEPT ![i] = gone], [shelf EXCEPT ![i] = hidden],
                      [shelf EXCEPT ![i] = ready], [shelf EXCEPT ![i] = tagged]}
      BY <1>5 DEF ShelfTyped
    <3>2. shelf[i] \in Lists!AssetRow /\ h \in BOOLEAN /\ t \in BOOLEAN BY DEF ShelfTyped
    <3>. HIDE DEF h, t
    <3>3. /\ gone \in Lists!AssetRow /\ gone.hash = shelf[i].hash /\ gone.content = shelf[i].content
          /\ hidden \in Lists!AssetRow /\ hidden.hash = shelf[i].hash /\ hidden.content = shelf[i].content
      BY <3>2 DEF Lists!AssetRow
    <3>4. /\ ready \in Lists!AssetRow /\ ready.hash = shelf[i].hash /\ ready.content = shelf[i].content
          /\ tagged \in Lists!AssetRow /\ tagged.hash = shelf[i].hash /\ tagged.content = shelf[i].content
      BY <3>2 DEF Lists!AssetRow
    <3>. HIDE DEF gone, hidden, ready, tagged
    <3>. QED BY <3>1, <3>3, <3>4 DEF ShelfTyped
  <2>2. HashInv' BY <1>5, <2>1 DEF HashInv, Lists!NULL
  <2>. QED BY <1>2, <1>5, <2>1, <2>2 DEF ShelfTyped
<1>6. (0..3) \cup {0} \cup Thresholds \cup (1..2) \subseteq Nat
  BY MaintenanceAssumption DEF MaintenanceAssumption
<1>. QED BY <1>1, <1>3, <1>4, <1>5, <1>6

LEMMA StoreSteps ==
  ASSUME ShelfTyped, HashingTyped, HashInv, Lists!StoreHash PROVE ShelfTyped' /\ HashingTyped' /\ HashInv'
<1>. DEFINE i == hashing.id
<1>1. i \in Entry /\ hashing.content \in Nat BY DEF Lists!StoreHash, HashingTyped
<1>2. /\ shelf' = [shelf EXCEPT ![i].hash = hashing.content] /\ hashing' = Lists!NoFile
      /\ tainted' = IF hashing.content = shelf[i].content THEN tainted ELSE tainted \cup {i}
  BY DEF Lists!StoreHash
<1>. HIDE DEF i
<1>3. /\ shelf' \in [Entry -> Lists!AssetRow] /\ shelf'[i].hash = hashing.content
      /\ \A k \in Entry : shelf'[k].content = shelf[k].content /\ (k # i => shelf'[k].hash = shelf[k].hash)
  BY <1>1, <1>2 DEF ShelfTyped, Lists!AssetRow
<1>4. HashInv' BY <1>1, <1>2, <1>3 DEF HashInv, Lists!NULL
<1>5. HashingTyped' BY <1>2 DEF HashingTyped, Lists!NoFile, Lists!NULL
<1>. QED BY <1>1, <1>2, <1>3, <1>4, <1>5 DEF ShelfTyped

LEMMA ListSteps ==
  ASSUME ShelfTyped, HashingTyped, HashInv, Lists!BrowseNext PROVE ShelfTyped' /\ HashingTyped' /\ HashInv'
<1>1. CASE Lists!Look
  BY <1>1 DEF Lists!Look, ShelfTyped, HashingTyped, HashInv, Lists!NoFile, Lists!NULL
<1>2. CASE Lists!RowChanges BY <1>2, RowChangeSteps
<1>3. CASE Lists!ReadFile
  <2>1. PICK i \in Lists!Candidates : hashing' = [id |-> i, content |-> shelf[i].content] BY <1>3 DEF Lists!ReadFile
  <2>2. i \in Entry /\ shelf[i].content \in Nat BY DEF Lists!Candidates, ShelfTyped, Lists!AssetRow
  <2>3. HashingTyped' BY <2>1, <2>2 DEF HashingTyped
  <2>. QED BY <1>3, <2>3 DEF Lists!ReadFile, ShelfTyped, HashInv, Lists!NULL
<1>4. CASE Lists!StoreHash BY <1>4, StoreSteps
<1>. QED BY <1>1, <1>2, <1>3, <1>4 DEF Lists!BrowseNext

LEMMA ViewSteps == ASSUME ViewTyped, Lists!BrowseNext PROVE ViewTyped'
<1>. MaxChanges \in Nat BY MaintenanceAssumption DEF MaintenanceAssumption
<1>. QED BY DEF ViewTyped, Lists!BrowseNext, Lists!Look, Lists!RowChanges, Lists!ReadFile, Lists!StoreHash

-----------------------------------------------------------------------------
(* The beginning                                                           *)

LEMMA Browsed == ASSUME ListsInv, view \in Lists!View PROVE ShelfTyped
<1>1. view.kind # "none" BY ViewParts
<1>2. Lists!NoView.kind = "none" BY DEF Lists!NoView
<1>3. view # Lists!NoView BY <1>1, <1>2, Zenon
<1>. QED BY <1>3 DEF ListsInv

LEMMA TasksBegin == Tasks!TasksInit => TasksInv
<1>. SUFFICES ASSUME Tasks!TasksInit PROVE TasksInv OBVIOUS
<1>1. WorkTyped BY DEF Tasks!TasksInit, WorkTyped, Tasks!WorkItem
<1>2. RecTyped BY DEF Tasks!TasksInit, RecTyped, Tasks!Tasks
<1>3. AITyped /\ DupTyped /\ CleanTyped /\ ResetTyped
  BY DEF Tasks!TasksInit, AITyped, DupTyped, CleanTyped, ResetTyped, Tasks!IdleDup, Tasks!NoCleanup,
         Tasks!NoReset
<1>4. CheckTyped BY DEF Tasks!TasksInit, CheckTyped, Tasks!NoCheck
<1>5. RestTyped
  <2>1. Budget \in 0..Budget BY Kinds
  <2>. QED BY <2>1 DEF Tasks!TasksInit, RestTyped
<1>6. CutInv /\ CleanupInv BY DEF Tasks!TasksInit, CutInv, CleanupInv, Tasks!NoCleanup, Tasks!NoReset
<1>7. RecordsInv
  <2>1. rec["cache_cleanup"] = "none" /\ rec["duplicate_scan"] = "none" BY DEF Tasks!TasksInit, Tasks!Tasks
  <2>. QED BY <2>1 DEF RecordsInv
<1>. QED BY <1>1, <1>2, <1>3, <1>4, <1>5, <1>6, <1>7 DEF TasksInv, TasksTyped

\* The ids of the rows a behaviour starts with tell them apart.
LEMMA Numbering ==
  /\ Cardinality(Media) \in Nat
  /\ \E n \in [Media -> 1..Cardinality(Media)] : \A a, b \in Media : n[a] = n[b] => a = b
<1>. DEFINE c == Cardinality(Media)
<1>1. IsFiniteSet(Media) BY MaintenanceAssumption DEF MaintenanceAssumption
<1>2. c \in Nat /\ ExistsBijection(1..c, Media) BY <1>1, FS_CardinalityType
<1>3. ExistsBijection(Media, 1..c) BY <1>2, Fun_ExistsBijSymmetric
<1>4. PICK n \in Bijection(Media, 1..c) : TRUE BY <1>3 DEF ExistsBijection
<1>5. n \in [Media -> 1..c] /\ \A a, b \in Media : n[a] = n[b] => a = b
  BY <1>4 DEF Bijection, Injection, IsInjective
<1>. QED BY <1>2, <1>5

\* The instance's name for the library's operator.
LEMMA SameCardinality == Del!Cardinality(Media) = Cardinality(Media)
BY Zenon DEF Del!Cardinality, Cardinality

LEMMA DeletionBegins == Del!DeletionInit => DeletionInv
<1>. SUFFICES ASSUME Del!DeletionInit PROVE DeletionInv OBVIOUS
<1>. DEFINE id == CHOOSE n \in [Media -> 1..Cardinality(Media)] : \A a, b \in Media : n[a] = n[b] => a = b
<1>1. /\ Cardinality(Media) \in Nat /\ id \in [Media -> 1..Cardinality(Media)]
      /\ \A a, b \in Media : id[a] = id[b] => a = b
  BY Numbering
<1>2. row = [m \in Media |-> IF disk[m] = 0 THEN Del!NoRow ELSE [st |-> "seen", id |-> id[m]]]
  BY SameCardinality, Zenon DEF Del!DeletionInit
<1>. HIDE DEF id
<1>3. /\ root = "up" /\ dirs = UNION {Above[Dir[f]] : f \in Del!Here} /\ nextId = Cardinality(Media) + 1
      /\ link = Del!Seen /\ folders = UNION {Above[Dir[m]] : m \in Del!Seen}
      /\ adding = "none" /\ plan = Del!NoPlan /\ del = Del!NoDel
      /\ refresh = [due |-> FALSE, drops |-> {}] /\ orphaned = {} /\ raced = {}
  BY SameCardinality, Zenon DEF Del!DeletionInit
<1>. disk \in [File -> 0..1]
  <2>1. PICK some \in Initially : disk = [f \in File |-> IF f \in some THEN 1 ELSE 0] BY Zenon DEF Del!DeletionInit
  <2>. QED BY <2>1
<1>4. 0..1 \subseteq 0..MaxVersion BY MaintenanceAssumption DEF MaintenanceAssumption
<1>5. \A f \in Del!Here : Above[Dir[f]] \subseteq Folder BY Layout DEF Del!Here
<1>6. Del!Seen \subseteq Media BY DEF Del!Seen
<1>7. DiskTyped
  <2>1. dirs \subseteq Folder BY <1>3, <1>5
  <2>2. disk \in [File -> 0..MaxVersion] BY <1>3, <1>4
  <2>. QED BY <2>1, <2>2 DEF DiskTyped
<1>8. RowTyped BY <1>1, <1>2, <1>3 DEF RowTyped, Del!NoRow
<1>9. FoldersTyped
  <2>1. folders \subseteq Folder BY <1>3, <1>6, Layout
  <2>. QED BY <1>3, <1>6, <2>1 DEF FoldersTyped
<1>10. PlanTyped BY <1>3 DEF PlanTyped, PlanType, Del!NoPlan
<1>11. DelTyped BY <1>3 DEF DelTyped, DelType, Del!NoDel
<1>12. DirsInv BY <1>3 DEF DirsInv
<1>13. IdInv BY <1>1, <1>2, <1>3 DEF IdInv, Del!NoRow
<1>14. ShapeInv /\ ChoiceInv /\ AbsentInv BY <1>3 DEF ShapeInv, ChoiceInv, AbsentInv, Del!NoDel
<1>15. PurgeInv BY <1>3 DEF PurgeInv, Doomed, Del!NoDel
<1>16. FoldersInv BY <1>3 DEF FoldersInv, FoldersHold
<1>. QED BY <1>7, <1>8, <1>9, <1>10, <1>11, <1>12, <1>13, <1>14, <1>15, <1>16 DEF DeletionInv, DeletingInv, DelTypes

-----------------------------------------------------------------------------
(* What a step of one part leaves to the others                            *)

LEMMA TasksStand == ASSUME TasksInv, UNCHANGED <<root, left, tasksOnly>> PROVE TasksInv'
BY DEF tasksOnly, TasksInv, TasksTyped, WorkTyped, RecTyped, AITyped, DupTyped, CleanTyped, CheckTyped,
       ResetTyped, RestTyped, CutInv, CleanupInv, RecordsInv

LEMMA DeletionStands == ASSUME DeletionInv, UNCHANGED <<root, delOnly>> PROVE DeletionInv'
<1>. UNCHANGED <<root, disk, dirs, row, nextId, folders, link, adding, plan, del, refresh, orphaned, raced>>
  BY DEF delOnly
<1>1. DelTypes' BY DEF DeletionInv, DeletingInv, DelTypes, DiskTyped, RowTyped, FoldersTyped, PlanTyped, DelTyped
<1>2. DirsInv' /\ IdInv' /\ ShapeInv' BY DEF DeletionInv, DeletingInv, DirsInv, IdInv, ShapeInv, Del!Here
<1>3. ChoiceInv' BY DEF DeletionInv, DeletingInv, ChoiceInv, Alike
<1>4. AbsentInv' BY DEF DeletionInv, DeletingInv, AbsentInv, Del!Absent
<1>5. PurgeInv' BY DEF DeletionInv, DeletingInv, PurgeInv, Doomed
<1>6. FoldersInv' BY DEF DeletionInv, FoldersInv, FoldersHold, Del!Seen
<1>. QED BY <1>1, <1>2, <1>3, <1>4, <1>5, <1>6 DEF DeletionInv, DeletingInv

LEMMA ListsStand == ASSUME ListsInv, UNCHANGED <<listsOnly, focus>> PROVE ListsInv'
BY DEF listsOnly, ListsInv, ShelfTyped, HashingTyped, HashInv, ViewTyped

\* A deletion and a scan's rows spend what the bound leaves and nothing else of the tasks.
LEMMA DeletionSpends ==
  ASSUME Del!RowsNext \/ Del!DeleteNext \/ Del!ScanNext
  PROVE  root' = root /\ (left' = left \/ Del!Spend)
<1>1. CASE Del!RowsNext
  BY <1>1 DEF Del!RowsNext, Del!FileChanges, Del!DeleteRecord, Del!ScanWrites, Del!RefreshReads,
              Del!RefreshWrites
<1>2. CASE Del!ScanNext BY <1>2 DEF Del!ScanNext, Del!ScanFinds, Del!ScanMisses
<1>3. CASE \E a \in Media : Del!ShowPlan(a) BY <1>3 DEF Del!ShowPlan
<1>4. CASE Del!Confirm BY <1>4 DEF Del!Confirm
<1>5. CASE Del!NextOfBatch BY <1>5 DEF Del!NextOfBatch
<1>6. CASE Del!MarkDeleted BY <1>6 DEF Del!MarkDeleted
<1>7. CASE Del!RemoveDirs BY <1>7 DEF Del!RemoveDirs
<1>8. CASE Del!MarkUnder BY <1>8 DEF Del!MarkUnder
<1>9. CASE Del!PurgeRows BY <1>9 DEF Del!PurgeRows
<1>10. CASE Del!PurgeDirect BY <1>10 DEF Del!PurgeDirect
<1>11. CASE \E S \in SUBSET Media : Del!BeginBatch(S) BY <1>11 DEF Del!BeginBatch
<1>12. CASE \E f \in File : Del!RemoveFile(f) BY <1>12 DEF Del!RemoveFile, Del!RemoveFails
<1>. QED BY <1>1, <1>2, <1>3, <1>4, <1>5, <1>6, <1>7, <1>8, <1>9, <1>10, <1>11, <1>12 DEF Del!DeleteNext

LEMMA TasksStandBy ==
  ASSUME TasksInv, UNCHANGED tasksOnly, Del!RowsNext \/ Del!DeleteNext \/ Del!ScanNext PROVE TasksInv'
<1>1. root' = root /\ (left' = left \/ Del!Spend) BY DeletionSpends
<1>2. left' \in 0..Budget
  BY <1>1, Kinds DEF Del!Spend, TasksInv, TasksTyped, RestTyped
<1>3. RestTyped' BY <1>1, <1>2 DEF tasksOnly, TasksInv, TasksTyped, RestTyped
<1>4. /\ WorkTyped' /\ RecTyped' /\ AITyped' /\ DupTyped' /\ CleanTyped' /\ CheckTyped' /\ ResetTyped'
      /\ CutInv' /\ CleanupInv' /\ RecordsInv'
  BY DEF tasksOnly, TasksInv, TasksTyped, WorkTyped, RecTyped, AITyped, DupTyped, CleanTyped, CheckTyped,
         ResetTyped, CutInv, CleanupInv, RecordsInv
<1>. QED BY <1>3, <1>4 DEF TasksInv, TasksTyped

\* The storage moves in a step of its own.
LEMMA RootStays ==
  ASSUME \/ Tasks!WorkNext \/ Tasks!DuplicateNext \/ Tasks!CleanupNext \/ Tasks!CheckNext \/ Tasks!ResetNext
         \/ Tasks!StartCleanup("all") \/ Tasks!ClearAllAssets \/ Tasks!Truncate \/ Tasks!Restart
  PROVE  root' = root
<1>1. CASE Tasks!WorkNext
  BY <1>1 DEF Tasks!WorkNext, Tasks!Supply, Tasks!Take, Tasks!WorkEnds, Tasks!StopTask, Tasks!RunMediaTask,
              Tasks!RunAITask, Tasks!ToggleAI, Tasks!ScanStarts, Tasks!ScanEnds
<1>2. CASE Tasks!DuplicateNext
  BY <1>2 DEF Tasks!DuplicateNext, Tasks!AskDuplicates, Tasks!TryDuplicates, Tasks!BeginDuplicates,
              Tasks!CountTry, Tasks!HashOne, Tasks!StopDuplicates, Tasks!RecordDuplicates, Tasks!EndDuplicates
<1>3. CASE Tasks!CleanupNext
  BY <1>3 DEF Tasks!CleanupNext, Tasks!StartCleanup, Tasks!BeginCleanup, Tasks!StopCleanup,
              Tasks!RecordCleanup, Tasks!EndCleanup
<1>4. CASE Tasks!CheckNext
  BY <1>4 DEF Tasks!CheckNext, Tasks!BeginCheck, Tasks!ProbeStorage, Tasks!ActOnCheck, Tasks!FinishCheck,
              Tasks!ClientLeaves, Tasks!RetryStorage, Tasks!StorageRecovers
<1>5. CASE Tasks!ResetNext
  BY <1>5 DEF Tasks!ResetNext, Tasks!BeginReset, Tasks!StopEverything, Tasks!WaitForQuiet, Tasks!ClearAgain,
              Tasks!TruncateFails, Tasks!EndReset
<1>6. CASE Tasks!StartCleanup("all") \/ Tasks!ClearAllAssets \/ Tasks!Truncate \/ Tasks!Restart
  BY <1>6 DEF Tasks!StartCleanup, Tasks!ClearAllAssets, Tasks!Truncate, Tasks!Restart
<1>. QED BY <1>1, <1>2, <1>3, <1>4, <1>5, <1>6

-----------------------------------------------------------------------------
(* Every step                                                              *)

IInv == TasksInv /\ DeletionInv /\ ListsInv

LEMMA Begins == Init => IInv
<1>. SUFFICES ASSUME Init PROVE IInv OBVIOUS
<1>1. TasksInv /\ DeletionInv BY TasksBegin, DeletionBegins DEF Init
<1>2. ListsInv
  <2>1. CASE focus = "browsing"
    <3>1. Lists!BrowseInit BY <2>1 DEF Init
    <3>2. ViewTyped
      BY <3>1, MaintenanceAssumption DEF MaintenanceAssumption, Lists!BrowseInit, ViewTyped
    <3>3. ShelfTyped /\ HashingTyped /\ HashInv BY <3>1, ListsBegin
    <3>. QED BY <2>1, <3>2, <3>3 DEF ListsInv
  <2>2. CASE focus # "browsing" BY <2>2 DEF ListsInv, Init
  <2>. QED BY <2>1, <2>2
<1>. QED BY <1>1, <1>2 DEF IInv

LEMMA TaskSteps == ASSUME IInv, TaskStep PROVE IInv'
<1>1. \/ Tasks!WorkNext \/ Tasks!DuplicateNext \/ Tasks!CleanupNext \/ Tasks!CheckNext \/ Tasks!ResetNext
  BY DEF TaskStep, Tasks!WorkNext, Tasks!CleanupNext
<1>2. TasksInv' BY <1>1, WorkSteps, DuplicateSteps, CleanupSteps, CheckSteps, ResetSteps DEF IInv
<1>3. DeletionInv' BY <1>1, RootStays, DeletionStands DEF IInv, TaskStep
<1>4. ListsInv' BY ListsStand DEF IInv, TaskStep
<1>. QED BY <1>2, <1>3, <1>4 DEF IInv

LEMMA DeletionSteps == ASSUME IInv, DeletionStep PROVE IInv'
<1>1. Del!RowsNext \/ Del!DeleteNext \/ Del!ScanNext BY DEF DeletionStep
<1>2. TasksInv' BY <1>1, TasksStandBy DEF IInv, DeletionStep
<1>3. DeletionInv' BY <1>1, RowsSteps, DeleteSteps, ScanSteps DEF IInv
<1>4. ListsInv' BY ListsStand DEF IInv, DeletionStep
<1>. QED BY <1>2, <1>3, <1>4 DEF IInv

LEMMA ListStepSteps == ASSUME IInv, ListStep PROVE IInv'
<1>1. TasksInv' BY TasksStand DEF IInv, ListStep
<1>2. DeletionInv' BY DeletionStands DEF IInv, ListStep
<1>3. ListsInv' BY ListSteps, ViewSteps DEF IInv, ListsInv, ListStep
<1>. QED BY <1>1, <1>2, <1>3 DEF IInv

\* Steps of the tasks and of the deletion at once.
LEMMA SharedSteps ==
  ASSUME IInv, StorageTurns \/ LastLibraryGoes \/ AllAssetsGo \/ LibraryIsReset \/ Restarts PROVE IInv'
<1>1. ListsInv'
  BY ListsStand DEF IInv, StorageTurns, LastLibraryGoes, AllAssetsGo, LibraryIsReset, Restarts, Apart
<1>2. CASE StorageTurns
  <2>1. TasksInv' BY <1>2, CheckSteps DEF IInv, StorageTurns
  <2>2. DeletionInv' BY <1>2, OtherSteps DEF IInv, StorageTurns
  <2>. QED BY <1>1, <2>1, <2>2 DEF IInv
<1>3. CASE LastLibraryGoes
  <2>1. TasksInv' BY <1>3, CleanupSteps DEF IInv, LastLibraryGoes
  <2>2. DeletionInv' BY <1>3, RootStays, DeletionStands DEF IInv, LastLibraryGoes
  <2>. QED BY <1>1, <2>1, <2>2 DEF IInv
<1>4. CASE AllAssetsGo
  <2>1. TasksInv' BY <1>4, CleanupSteps DEF IInv, AllAssetsGo
  <2>2. DeletionInv' BY <1>4, RootStays, OtherSteps DEF IInv, AllAssetsGo
  <2>. QED BY <1>1, <2>1, <2>2 DEF IInv
<1>5. CASE LibraryIsReset
  <2>1. TasksInv' BY <1>5, ResetSteps DEF IInv, LibraryIsReset
  <2>2. DeletionInv' BY <1>5, RootStays, OtherSteps DEF IInv, LibraryIsReset
  <2>. QED BY <1>1, <2>1, <2>2 DEF IInv
<1>6. CASE Restarts
  <2>1. TasksInv' BY <1>6, ResetSteps DEF IInv, Restarts
  <2>2. DeletionInv' BY <1>6, RootStays, OtherSteps DEF IInv, Restarts
  <2>. QED BY <1>1, <2>1, <2>2 DEF IInv
<1>. QED BY <1>2, <1>3, <1>4, <1>5, <1>6

LEMMA Stutter == ASSUME IInv, UNCHANGED vars PROVE IInv'
BY TasksStand, DeletionStands, ListsStand DEF IInv, vars

LEMMA Always == Spec => []IInv
<1>1. Init => IInv BY Begins
<1>2. IInv /\ [Next]_vars => IInv'
  BY TaskSteps, DeletionSteps, ListStepSteps, SharedSteps, Stutter DEF Next
<1>. QED BY <1>1, <1>2, PTL DEF Spec

-----------------------------------------------------------------------------
(* What it shows                                                           *)

\* Every variable of the tasks, the deletion and the lists keeps its type, whichever of the
\* parts, which share the storage and the bound, takes a step.
THEOREM TypeCorrect == Spec => []TypeOK
<1>1. TasksTyped /\ DelTypes => Del!DeletionTypeOK
  BY DEF DelTypes, DiskTyped, RowTyped, FoldersTyped, PlanTyped, PlanType, DelTyped, DelType, TasksTyped,
         RestTyped, Del!DeletionTypeOK
<1>2. ShelfTyped /\ HashingTyped /\ ViewTyped => Lists!BrowseTypeOK
  BY DEF ShelfTyped, HashingTyped, ViewTyped, Lists!BrowseTypeOK
<1>3. IInv => TypeOK
  BY <1>1, <1>2, TasksTypeParts DEF IInv, TasksInv, DeletionInv, DeletingInv, ListsInv, TypeOK
<1>. QED BY <1>3, Always, PTL

\* The record of the duplicate scan and of the cache cleanup says "running" while the goroutine
\* is at work and not when it is gone, whatever is started, stopped, reset or restarted
\* (startDuplicateScan, runCacheCleanup, duplicateScanSystemTask).
THEOREM RecordsTellTheTruth == Spec => []RunningIsRecorded
<1>1. TasksInv => RunningIsRecorded
  BY DEF TasksInv, RecordsInv, CleanupInv, RunningIsRecorded, Tasks!RunningIsRecorded, Tasks!ShownRecord
<1>. QED BY <1>1, Always, PTL DEF IInv

\* ResetMediaLibrary's transaction begins only when nothing of what was at work when the
\* reset stopped everything, and that it waits for, is still at work.
THEOREM ResetFindsQuiet == Spec => []ResetIsQuiet
<1>1. TasksInv => ResetIsQuiet BY DEF TasksInv, CutInv, ResetIsQuiet, Tasks!ResetIsQuiet
<1>. QED BY <1>1, Always, PTL DEF IInv

\* executeAssetDeletePlan removes, for a confirmed deletion, no file that was not in the plan
\* the user saw, whatever appeared on the disk or in the rows since.
THEOREM OnlyShownFilesGo == Spec => []DeletesOnlyShown
<1>1. DeletionInv => DeletesOnlyShown
  BY DEF DeletionInv, DeletingInv, ChoiceInv, DeletesOnlyShown, Del!DeletesOnlyShown
<1>. QED BY <1>1, Always, PTL DEF IInv

\* No deletion, of one asset or of a batch, removes the file of another media than the one
\* named or one of its name in its folder, even where buildAssetDeletePlan takes a whole folder.
THEOREM OtherMediaStay == Spec => []OnlyNamedMediaGoes
<1>1. DeletionInv => OnlyNamedMediaGoes
  BY DEF DeletionInv, DeletingInv, ChoiceInv, Alike, OnlyNamedMediaGoes, Del!OnlyNamedMediaGoes
<1>. QED BY <1>1, Always, PTL DEF IInv

\* PurgeAssetIDs, at the end of a deletion, takes only rows whose file was removed or could not
\* be reached since the deletion began, unless a reset started the ids again in between.
THEOREM PurgeFollowsAbsence == Spec => []PurgedWasGone
<1>1. DeletionInv => PurgedWasGone
  BY DEF DeletionInv, DeletingInv, PurgeInv, PurgedWasGone, Del!PurgedWasGone
<1>. QED BY <1>1, Always, PTL DEF IInv

\* However many refreshes are under way, RefreshFolders never takes the folder rows away from
\* an asset that is shown, unless the asset was added while one of them was between its
\* snapshot and its write.
THEOREM RefreshKeepsFolders == Spec => []FoldersStay
<1>1. DeletionInv => FoldersStay
  BY DEF DeletionInv, FoldersInv, FoldersHold, FoldersStay, Del!FoldersStay
<1>. QED BY <1>1, Always, PTL DEF IInv

\* What DuplicateDeleteCandidateIDs proposes leaves of each file a copy that is shown and has
\* the same content, unless one of the two was changed while runDuplicateScan hashed it.
THEOREM ACopyIsKept == Spec => []SelectionKeepsOne
<1>1. ListsInv => SelectionKeepsOne BY OneIsKept DEF ListsInv, SelectionKeepsOne
<1>. QED BY <1>1, Always, PTL DEF IInv

\* AssetFilterNeighbors and SystemCollectionNeighbors, four queries in all, give the rows that
\* stand next to the asset in the order of its list, or in that of the rows the fast query reads.
THEOREM SwipingFollowsList == Spec => []NeighboursFollowList
<1>1. ListsInv => NeighboursFollowList
  <2>1. SUFFICES ASSUME ListsInv, view \in Lists!View PROVE Lists!NeighboursFollowList
    BY DEF NeighboursFollowList, Lists!NeighboursFollowList
  <2>2. ShelfTyped BY <2>1, Browsed
  <2>. QED BY <2>1, <2>2, NeighboursFollow
<1>. QED BY <1>1, Always, PTL DEF IInv

\* Pages, positions and anchors of a list lead to the same rows: what ListAssetsByFilterSQL reads
\* page after page is the list, assetPositionForFilter names the page an asset is on, and the
\* anchors of anchorsForFilter open rows of the list, each group at its first.
THEOREM EveryWayLeadsThere == Spec => []PlacesAgree
<1>1. ListsInv => PlacesAgree
  <2>1. SUFFICES ASSUME ListsInv, view \in Lists!View PROVE Lists!PlacesAgree
    BY DEF PlacesAgree, Lists!PlacesAgree
  <2>2. ShelfTyped BY <2>1, Browsed
  <2>. QED BY <2>1, <2>2, PlacesFit
<1>. QED BY <1>1, Always, PTL DEF IInv
=============================================================================
