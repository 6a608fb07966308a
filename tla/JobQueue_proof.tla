---------------------------- MODULE JobQueue_proof ----------------------------
(***************************************************************************)
(* Proofs about JobQueue for every value of its constants: type            *)
(* correctness; that urgent entries lead every list; that workers never    *)
(* all wait for one another; and, without user stops, where a media item   *)
(* is between its claim and its release (in one place only, and the dedupe *)
(* set says exactly which items are in one), and that the manager          *)
(* implements WorkPromise.                                                 *)
(***************************************************************************)
EXTENDS JobQueue, FiniteSetTheorems, TLAPS

-----------------------------------------------------------------------------
(* Sequences: what insertion and removal do to the entries *)

\* Inserting before position i keeps the entries before it and shifts the rest.
LEMMA InsertAtEntries ==
    ASSUME NEW S, NEW q \in Seq(S), NEW e \in S, NEW i \in 1..(Len(q) + 1)
    PROVE  /\ InsertAt(q, i, e) \in Seq(S)
           /\ Len(InsertAt(q, i, e)) = Len(q) + 1
           /\ \A n \in 1..(Len(q) + 1) :
                 InsertAt(q, i, e)[n] = IF n < i THEN q[n] ELSE IF n = i THEN e ELSE q[n - 1]
<1>1. SubSeq(q, 1, i - 1) \in Seq(S) /\ Len(SubSeq(q, 1, i - 1)) = i - 1
      /\ \A n \in 1..(i - 1) : SubSeq(q, 1, i - 1)[n] = q[n]
  OBVIOUS
<1>2. SubSeq(q, i, Len(q)) \in Seq(S) /\ Len(SubSeq(q, i, Len(q))) = Len(q) - i + 1
      /\ \A n \in 1..(Len(q) - i + 1) : SubSeq(q, i, Len(q))[n] = q[i + n - 1]
  OBVIOUS
<1> DEFINE head == SubSeq(q, 1, i - 1)
           rest == SubSeq(q, i, Len(q))
<1>3. <<e>> \in Seq(S) /\ Len(<<e>>) = 1 /\ <<e>>[1] = e
  OBVIOUS
<1>4. head \o <<e>> \in Seq(S) /\ Len(head \o <<e>>) = i
      /\ \A n \in 1..i : (head \o <<e>>)[n] = IF n < i THEN q[n] ELSE e
  <2> HIDE DEF head
  <2>1. QED  BY <1>1, <1>3 DEF head
<1>5. QED
  <2>1. InsertAt(q, i, e) = (head \o <<e>>) \o rest
    BY DEF InsertAt
  <2> DEFINE front == head \o <<e>>
  <2> HIDE DEF head, rest, front
  <2>2. front \in Seq(S) /\ Len(front) = i /\ rest \in Seq(S) /\ Len(rest) = Len(q) - i + 1
    BY <1>2, <1>4 DEF rest, front
  <2>3. \A n \in 1..(Len(q) + 1) : (front \o rest)[n] = IF n <= i THEN front[n] ELSE rest[n - i]
    BY <2>2
  <2>4. \A n \in 1..(Len(q) + 1) : n > i => rest[n - i] = q[n - 1]
    BY <1>2 DEF rest
  <2>5. \A n \in 1..i : front[n] = IF n < i THEN q[n] ELSE e
    BY <1>4 DEF front
  <2>6. QED
    BY <2>1, <2>2, <2>3, <2>4, <2>5 DEF front

\* Removing position i keeps the entries before it and shifts the rest.
LEMMA RemoveAtEntries ==
    ASSUME NEW S, NEW q \in Seq(S), NEW i \in 1..Len(q)
    PROVE  /\ RemoveAt(q, i) \in Seq(S)
           /\ Len(RemoveAt(q, i)) = Len(q) - 1
           /\ \A n \in 1..(Len(q) - 1) :
                 RemoveAt(q, i)[n] = IF n < i THEN q[n] ELSE q[n + 1]
<1>1. SubSeq(q, 1, i - 1) \in Seq(S) /\ Len(SubSeq(q, 1, i - 1)) = i - 1
      /\ \A n \in 1..(i - 1) : SubSeq(q, 1, i - 1)[n] = q[n]
  OBVIOUS
<1>2. SubSeq(q, i + 1, Len(q)) \in Seq(S) /\ Len(SubSeq(q, i + 1, Len(q))) = Len(q) - i
      /\ \A n \in 1..(Len(q) - i) : SubSeq(q, i + 1, Len(q))[n] = q[i + n]
  OBVIOUS
<1> DEFINE head == SubSeq(q, 1, i - 1)
           rest == SubSeq(q, i + 1, Len(q))
<1> HIDE DEF head, rest
<1>3. head \in Seq(S) /\ Len(head) = i - 1 /\ rest \in Seq(S) /\ Len(rest) = Len(q) - i
  BY <1>1, <1>2 DEF head, rest
<1>4. \A n \in 1..(Len(q) - 1) : (head \o rest)[n] = IF n < i THEN head[n] ELSE rest[n - i + 1]
  BY <1>3
<1>5. \A n \in 1..(Len(q) - 1) : n < i => head[n] = q[n]
  BY <1>1 DEF head
<1>6. \A n \in 1..(Len(q) - 1) : n >= i => rest[n - i + 1] = q[n + 1]
  <2>1. SUFFICES ASSUME NEW n \in 1..(Len(q) - 1), n >= i
                 PROVE  rest[n - i + 1] = q[n + 1]
    OBVIOUS
  <2>2. n - i + 1 \in 1..(Len(q) - i) /\ i + (n - i + 1) = n + 1
    BY <2>1
  <2>3. rest[n - i + 1] = q[i + (n - i + 1)]
    BY <1>2, <2>2 DEF rest
  <2>4. QED  BY <2>2, <2>3
<1>7. RemoveAt(q, i) = head \o rest
  BY DEF RemoveAt, head, rest
<1>8. Len(head \o rest) = Len(q) - 1 /\ head \o rest \in Seq(S)
  BY <1>3
<1>9. QED
  BY <1>4, <1>5, <1>6, <1>7, <1>8

-----------------------------------------------------------------------------
(* Type correctness *)

LEMMA TaskFacts ==
    ASSUME NEW t \in Task
    PROVE  /\ t.type \in TaskType /\ t.subject \in Subject /\ t.prio \in Nat
           /\ t.attempt \in 0..MaxAutomaticRetries /\ t.gen \in Nat
           /\ t # NoTask
           /\ Key(t) \in TaskType \X Subject
  BY ConstantsAssumption DEF Task, Key, ConstantsAssumption

LEMMA NextAttemptIsTask ==
    ASSUME NEW t \in Task, NEW r, RetryDue(t, r)
    PROVE  NextAttempt(t) \in Task
<1>1. MaxAutomaticRetries \in Nat
  BY ConstantsAssumption DEF ConstantsAssumption
<1>2. t.attempt + 1 \in 0..MaxAutomaticRetries
  BY <1>1, TaskFacts DEF RetryDue
<1>3. QED
  BY <1>2 DEF NextAttempt, Task

LEMMA InitTypeOK == Init => TypeOK
<1>1. SUFFICES ASSUME Init PROVE TypeOK
  OBVIOUS
<1>2. queue \in [TaskType -> Seq(Task)]
      /\ \A type \in TaskType : \A i \in DOMAIN queue[type] : queue[type][i].type = type
  BY <1>1 DEF Init
<1>3. QED
  BY <1>1, <1>2 DEF Init, TypeOK, ListsOK, WorkersOK, CallsOK, ControlOK

LEMMA PushLists ==
    ASSUME TypeOK, NEW p \in Proc, Push(p)
    PROVE  ListsOK'
<1> DEFINE t == callTask[p]
           q == queue[t.type]
<1>1. t \in Task /\ t.type \in TaskType
  BY TaskFacts DEF TypeOK, CallsOK, Push
<1>2. PICK i \in 1..(Len(q) + 1) : queue' = [queue EXCEPT ![t.type] = InsertAt(q, i, t)]
  BY DEF Push
<1>3. q \in Seq(Task) /\ \A n \in 1..Len(q) : q[n].type = t.type
  BY <1>1 DEF TypeOK, ListsOK
<1>4. /\ InsertAt(q, i, t) \in Seq(Task)
      /\ Len(InsertAt(q, i, t)) = Len(q) + 1
      /\ \A n \in 1..(Len(q) + 1) :
            InsertAt(q, i, t)[n] = IF n < i THEN q[n] ELSE IF n = i THEN t ELSE q[n - 1]
  <2>1. i \in 1..(Len(q) + 1)
    BY <1>2
  <2> HIDE DEF t, q
  <2>2. QED  BY SMTT(30), <1>1, <1>3, <2>1, InsertAtEntries
<1> DEFINE new == InsertAt(q, i, t)
<1>5. \A n \in 1..Len(new) : new[n].type = t.type
  <2> HIDE DEF t, q
  <2>1. QED  BY <1>3, <1>4
<1>6. QED
  <2>1. new \in Seq(Task)  BY <1>4
  <2> HIDE DEF new, t, q
  <2>2. queue' = [queue EXCEPT ![t.type] = new]  BY <1>2 DEF new
  <2>3. DOMAIN new = 1..Len(new)  BY <2>1
  <2>4. QED  BY <1>1, <1>5, <2>1, <2>2, <2>3 DEF ListsOK, TypeOK

LEMMA PromoteLists ==
    ASSUME TypeOK, NEW p \in Proc, Promote(p)
    PROVE  ListsOK'
<1> DEFINE t == callTask[p]
           q == queue[t.type]
<1>1. t \in Task /\ t.type \in TaskType
  BY TaskFacts DEF TypeOK, CallsOK, Promote
<1>2. q \in Seq(Task) /\ \A n \in 1..Len(q) : q[n].type = t.type
  BY <1>1 DEF TypeOK, ListsOK
<1>3. CASE UNCHANGED queue
  BY <1>3 DEF TypeOK, ListsOK
<1>4. ASSUME NEW i \in 1..Len(q), queue' = [queue EXCEPT ![t.type] = <<t>> \o RemoveAt(q, i)]
      PROVE  ListsOK'
  <2> DEFINE less == RemoveAt(q, i)
             new == <<t>> \o less
  <2>1. /\ less \in Seq(Task) /\ Len(less) = Len(q) - 1
        /\ \A n \in 1..(Len(q) - 1) : less[n] = IF n < i THEN q[n] ELSE q[n + 1]
    <3> HIDE DEF t, q
    <3>1. QED  BY <1>2, RemoveAtEntries
  <2> HIDE DEF less
  <2>2. \A n \in 1..Len(less) : less[n].type = t.type
    BY <1>2, <2>1
  <2>3. /\ new \in Seq(Task) /\ Len(new) = Len(less) + 1
        /\ \A n \in 1..Len(new) : new[n] = IF n = 1 THEN t ELSE less[n - 1]
    <3> HIDE DEF t
    <3>1. QED  BY <1>1, <2>1
  <2>4. \A n \in 1..Len(new) : new[n].type = t.type
    <3> HIDE DEF t, q, new
    <3>1. QED  BY <2>1, <2>2, <2>3
  <2>5. queue' = [queue EXCEPT ![t.type] = new]
    BY <1>4 DEF less
  <2> HIDE DEF t, q, new
  <2>6. QED  BY <1>1, <2>3, <2>4, <2>5 DEF ListsOK, TypeOK
<1>5. QED
  <2>1. q \in Seq(Task) => DOMAIN q = 1..Len(q)
    OBVIOUS
  <2>2. QED  BY <1>2, <1>3, <1>4, <2>1 DEF Promote

LEMMA PopLists ==
    ASSUME TypeOK, NEW w \in Worker, Pop(w)
    PROVE  ListsOK' /\ wtask' \in [Worker -> Task \cup {NoTask}] /\ wtask'[w] # NoTask
<1>1. PICK n \in DOMAIN Serves[w] :
         /\ queue[Serves[w][n]] # <<>>
         /\ wtask' = [wtask EXCEPT ![w] = Head(queue[Serves[w][n]])]
         /\ queue' = [queue EXCEPT ![Serves[w][n]] = Tail(@)]
  BY DEF Pop
<1> DEFINE type == Serves[w][n]
           q == queue[type]
<1>2. type \in TaskType
  BY ConstantsAssumption, <1>1 DEF ConstantsAssumption
<1>3. q \in Seq(Task) /\ q # <<>> /\ \A i \in 1..Len(q) : q[i].type = type
  BY <1>1, <1>2 DEF TypeOK, ListsOK
<1>4. /\ Head(q) \in Task
      /\ Tail(q) \in Seq(Task) /\ Len(Tail(q)) = Len(q) - 1
      /\ \A i \in 1..Len(Tail(q)) : Tail(q)[i] = q[i + 1]
  <2> HIDE DEF q
  <2>1. QED  BY <1>3
<1>5. wtask' = [wtask EXCEPT ![w] = Head(q)] /\ queue' = [queue EXCEPT ![type] = Tail(q)]
  BY <1>1
<1>6. \A i \in 1..Len(Tail(q)) : Tail(q)[i].type = type
  <2> HIDE DEF q, type
  <2>1. QED  BY <1>3, <1>4
<1> HIDE DEF q, type
<1>7. ListsOK'
  BY <1>2, <1>4, <1>5, <1>6 DEF ListsOK, TypeOK
<1>8. QED
  <2>1. Head(q) # NoTask
    BY <1>4, TaskFacts
  <2>2. QED  BY <1>4, <1>5, <1>7, <2>1 DEF TypeOK, WorkersOK

LEMMA EnqueueTypeOK ==
    ASSUME TypeOK, NEW p \in Proc, EnqueueStep(p)
    PROVE  TypeOK'
<1> USE DEF TypeOK, workerVars
<1>1. callTask[p] \in Task /\ Key(callTask[p]) \in TaskType \X Subject
  BY TaskFacts DEF EnqueueStep, Claim, Push, PushFails, Promote, CallsOK
<1>2. EndCall(p) => CallsOK'
  BY DEF EndCall, CallsOK
<1>3. ASSUME UNCHANGED <<workerVars, delayed, aiGen, signals, stop, spent>>,
             queued' \subseteq queued \cup {Key(callTask[p])}
      PROVE  WorkersOK' /\ ControlOK'
  BY <1>1, <1>3 DEF WorkersOK, ControlOK
<1>4. CASE Claim(p)
  <2>1. CallsOK'
    <3>1. CASE EndCall(p)  BY <1>2, <3>1
    <3>2. CASE \E s \in {"push", "promote"} : /\ callStep' = [callStep EXCEPT ![p] = s]
                                             /\ callTask' = callTask
      BY <1>1, <1>4, <3>2, TaskFacts DEF Claim, CallsOK
    <3>3. QED  BY <1>4, <3>1, <3>2 DEF Claim
  <2>2. queued' \subseteq queued \cup {Key(callTask[p])}
    BY <1>4 DEF Claim
  <2>3. WorkersOK' /\ ControlOK'
    BY <1>3, <1>4, <2>2 DEF Claim
  <2>4. ListsOK'
    BY <1>4 DEF Claim, ListsOK
  <2>5. QED  BY <2>1, <2>3, <2>4
<1>5. CASE Push(p)
  BY <1>2, <1>3, <1>5, PushLists DEF Push
<1>6. CASE PushFails(p)
  <2>1. ListsOK'
    BY <1>6 DEF PushFails, ListsOK
  <2>2. QED  BY <1>2, <1>3, <1>6, <2>1 DEF PushFails
<1>7. CASE Promote(p)
  <2>1. EndCall(p) /\ UNCHANGED <<queued, workerVars, delayed, aiGen, signals, stop, spent>>
    BY <1>7 DEF Promote
  <2>2. QED  BY <1>2, <1>3, <1>7, <2>1, PromoteLists
<1>8. QED
  BY <1>4, <1>5, <1>6, <1>7 DEF EnqueueStep

LEMMA WorkerTypeOK ==
    ASSUME TypeOK, NEW w \in Worker, WorkerStep(w)
    PROVE  TypeOK'
<1> USE DEF TypeOK, callVars
<1>1. UNCHANGED callVars => CallsOK'
  BY DEF CallsOK
<1>2. UNCHANGED queue => ListsOK'
  BY DEF ListsOK
<1>3. UNCHANGED <<queued, delayed, aiGen, signals, stop, spent>> => ControlOK'
  BY DEF ControlOK
<1>4. CASE BeginPoll(w)
  <2>1. WorkersOK'  BY <1>4 DEF BeginPoll, WorkersOK
  <2>2. QED  BY <1>1, <1>2, <1>3, <1>4, <2>1 DEF BeginPoll
<1>5. CASE PollTimesOut(w)
  <2>1. WorkersOK'  BY <1>5 DEF PollTimesOut, WorkersOK
  <2>2. QED  BY <1>1, <1>2, <1>3, <1>5, <2>1 DEF PollTimesOut
<1>6. CASE Pop(w)
  <2>1. \A v \in Worker : v # w => wtask'[v] = wtask[v]
    BY <1>6 DEF Pop, WorkersOK
  <2>2. WorkersOK'
    BY <1>6, <2>1, PopLists DEF Pop, WorkersOK
  <2>3. QED  BY <1>1, <1>3, <1>6, <2>2, PopLists DEF Pop
<1>7. CASE EnterTask(w)
  <2>1. WorkersOK'
    <3>1. \E pc \in {"acquiring", "running", "finished"} : wpc' = [wpc EXCEPT ![w] = pc]
      BY <1>7 DEF EnterTask
    <3>2. result' = result \/ result' = [result EXCEPT ![w] = "paused"]
      BY <1>7 DEF EnterTask
    <3>3. QED  BY <1>7, <3>1, <3>2 DEF EnterTask, WorkersOK
  <2>2. UNCHANGED <<queue, queued, callVars, delayed, aiGen, signals, stop, spent>>
    BY <1>7 DEF EnterTask
  <2>3. QED  BY <1>1, <1>2, <1>3, <2>1, <2>2
<1>8. CASE Acquire(w)
  <2>1. WorkersOK'  BY <1>8 DEF Acquire, WorkersOK
  <2>2. QED  BY <1>1, <1>2, <1>3, <1>8, <2>1 DEF Acquire
<1>9. CASE AcquireCancelled(w)
  <2>1. WorkersOK'  BY <1>9 DEF AcquireCancelled, WorkersOK
  <2>2. QED  BY <1>1, <1>2, <1>3, <1>9, <2>1 DEF AcquireCancelled
<1>10. CASE Preempt(w)
  <2>1. WorkersOK'  BY <1>10 DEF Preempt, WorkersOK
  <2>2. QED  BY <1>1, <1>2, <1>3, <1>10, <2>1 DEF Preempt
<1>11. CASE Finish(w)
  <2>1. \A r \in Outcome(wtask[w], cause[w]) :
           r \in {"ok", "failed", "retryable", "paused", "preempted", "stopped"}
    BY DEF Outcome, WorkersOK
  <2>2. WorkersOK'  BY <1>11, <2>1 DEF Finish, WorkersOK
  <2>3. QED  BY <1>1, <1>2, <1>3, <1>11, <2>2 DEF Finish
<1>12. CASE ReleaseKey(w)
  <2>1. WorkersOK'  BY <1>12 DEF ReleaseKey, WorkersOK
  <2>2. ControlOK'  BY <1>12 DEF ReleaseKey, ControlOK
  <2>3. QED  BY <1>1, <1>2, <1>12, <2>1, <2>2 DEF ReleaseKey
<1>13. CASE Requeue(w)
  <2>1. wtask[w] \in Task
    BY <1>13 DEF Requeue, WorkersOK
  <2>2. WorkersOK'  BY <1>13 DEF Requeue, WorkersOK
  <2>3. CallsOK'
    <3>1. CASE UNCHANGED callVars  BY <1>1, <3>1
    <3>2. CASE BeginCall(w, wtask[w])
      BY <2>1, <3>2, TaskFacts DEF BeginCall, CallsOK, Proc
    <3>3. QED  BY <1>13, <3>1, <3>2 DEF Requeue
  <2>4. ControlOK'
    <3>1. CASE UNCHANGED delayed
      BY <1>13, <3>1 DEF Requeue, ControlOK
    <3>2. CASE RetryDue(wtask[w], result[w]) /\ delayed' = delayed \cup {NextAttempt(wtask[w])}
      <4>1. NextAttempt(wtask[w]) \in Task
        BY <2>1, <3>2, NextAttemptIsTask
      <4>2. QED  BY <1>13, <3>2, <4>1 DEF Requeue, ControlOK
    <3>3. QED  BY <1>13, <3>1, <3>2 DEF Requeue
  <2>5. QED  BY <1>2, <1>13, <2>2, <2>3, <2>4 DEF Requeue
<1>14. QED
  BY <1>4, <1>5, <1>6, <1>7, <1>8, <1>9, <1>10, <1>11, <1>12, <1>13 DEF WorkerStep

LEMMA CallerTypeOK ==
    ASSUME TypeOK, NEW c \in Caller, CallerStep(c)
    PROVE  TypeOK'
<1> USE DEF TypeOK, workerVars
<1>1. ASSUME NEW t \in Task, BeginCall(c, t) PROVE CallsOK'
  BY <1>1, TaskFacts DEF BeginCall, CallsOK, Proc
<1>2. UNCHANGED <<queue, workerVars>> => ListsOK' /\ WorkersOK'
  BY DEF ListsOK, WorkersOK
<1>3. CASE Submit(c)
  <2>1. PICK r \in Request :
           BeginCall(c, [type |-> r.type, subject |-> r.subject, prio |-> r.prio,
                         attempt |-> 0, gen |-> IF r.type = "ai_analyze" THEN aiGen ELSE 0])
    BY <1>3 DEF Submit
  <2> DEFINE gen == IF r.type = "ai_analyze" THEN aiGen ELSE 0
             t == [type |-> r.type, subject |-> r.subject, prio |-> r.prio,
                   attempt |-> 0, gen |-> gen]
  <2>2. r \in [type: TaskType, subject: Subject, prio: Nat] /\ 0 \in 0..MaxAutomaticRetries
    BY ConstantsAssumption DEF ConstantsAssumption
  <2>3. gen \in Nat
    BY DEF ControlOK
  <2>4. t \in Task
    <3> HIDE DEF gen
    <3>1. QED  BY <2>2, <2>3 DEF Task
  <2>5. CallsOK'
    <3> HIDE DEF t
    <3>1. BeginCall(c, t)  BY <2>1 DEF t
    <3>2. QED  BY <1>1, <2>4, <3>1
  <2>6. ControlOK'
    BY <1>3 DEF Submit, ControlOK
  <2>7. QED  BY <1>2, <1>3, <2>5, <2>6 DEF Submit
<1>4. CASE RetryEnqueues(c)
  <2>1. CallsOK'  BY <1>1, <1>4 DEF RetryEnqueues, ControlOK
  <2>2. ControlOK'  BY <1>4 DEF RetryEnqueues, ControlOK
  <2>3. QED  BY <1>2, <1>4, <2>1, <2>2 DEF RetryEnqueues
<1>5. QED
  BY <1>3, <1>4 DEF CallerStep

LEMMA RestartTypeOK ==
    ASSUME TypeOK, Restart
    PROVE  TypeOK'
<1>1. ListsOK'
  BY DEF Restart, TypeOK, ListsOK
<1>2. WorkersOK'
  BY DEF Restart, WorkersOK
<1>3. CallsOK'
  BY DEF Restart, CallsOK
<1>4. ControlOK'
  BY DEF Restart, TypeOK, ControlOK
<1>5. QED
  BY <1>1, <1>2, <1>3, <1>4 DEF TypeOK

LEMMA OtherTypeOK ==
    ASSUME TypeOK, RetryExpires \/ StopStep \/ SignalStep
    PROVE  TypeOK'
<1> USE DEF TypeOK, workerVars, callVars
<1>1. UNCHANGED callVars => CallsOK'
  BY DEF CallsOK
<1>2. UNCHANGED queue => ListsOK'
  BY DEF ListsOK
<1>3. UNCHANGED workerVars => WorkersOK'
  BY DEF WorkersOK
<1>4. CASE RetryExpires
  <2>1. ControlOK'  BY <1>4 DEF RetryExpires, ControlOK
  <2>2. QED  BY <1>1, <1>2, <1>3, <1>4, <2>1 DEF RetryExpires
<1>5. ASSUME NEW g \in StopGroups, BeginStop(g) PROVE TypeOK'
  <2>1. g \subseteq TaskType
    BY ConstantsAssumption DEF ConstantsAssumption
  <2>2. {k \in queued : k[1] \in g} \in SUBSET (TaskType \X Subject)
    BY DEF ControlOK
  <2>3. ControlOK'
    BY <1>5, <2>1, <2>2 DEF BeginStop, ControlOK
  <2>4. QED  BY <1>1, <1>2, <1>3, <1>5, <2>3 DEF BeginStop
<1>6. CASE ClearQueues
  <2>1. ListsOK'  BY <1>6 DEF ClearQueues, ListsOK
  <2>2. ControlOK'  BY <1>6 DEF ClearQueues, ControlOK
  <2>3. QED  BY <1>1, <1>3, <1>6, <2>1, <2>2 DEF ClearQueues
<1>7. CASE CancelActive
  <2>1. WorkersOK'  BY <1>7 DEF CancelActive, WorkersOK
  <2>2. ControlOK'  BY <1>7 DEF CancelActive, ControlOK
  <2>3. QED  BY <1>1, <1>2, <1>7, <2>1, <2>2 DEF CancelActive
<1>8. CASE SignalStep
  <2>1. ControlOK'
    <3>1. signals' \subseteq {"scan", "playback", "pause"}
      BY <1>8 DEF SignalStep, RaiseSignal, LowerSignal, PauseBackground, ControlOK
    <3>2. CASE UNCHANGED stop
      BY <1>8, <3>1, <3>2 DEF SignalStep, RaiseSignal, LowerSignal, PauseBackground, ControlOK
    <3>3. CASE PauseBackground
      <4>1. MediaType \cap TaskType \in SUBSET TaskType /\ {} \in SUBSET (TaskType \X Subject)
        OBVIOUS
      <4>2. QED  BY <3>1, <3>3, <4>1 DEF PauseBackground, ControlOK
    <3>4. QED  BY <1>8, <3>2, <3>3 DEF SignalStep, RaiseSignal, LowerSignal
  <2>2. UNCHANGED <<queue, workerVars, callVars>>
    BY <1>8 DEF SignalStep, RaiseSignal, LowerSignal, PauseBackground
  <2>3. QED  BY <1>1, <1>2, <1>3, <2>1, <2>2
<1>9. QED
  BY <1>4, <1>5, <1>6, <1>7, <1>8 DEF StopStep

\* Every step of the manager keeps its memory and its Redis data well typed.
LEMMA StepTypeOK == TypeOK /\ [Next]_vars => TypeOK'
<1>1. SUFFICES ASSUME TypeOK, [Next]_vars PROVE TypeOK'
  OBVIOUS
<1>2. CASE Next
  BY <1>1, <1>2, EnqueueTypeOK, WorkerTypeOK, CallerTypeOK, OtherTypeOK, RestartTypeOK DEF Next
<1>3. CASE UNCHANGED vars
  BY <1>1, <1>3 DEF TypeOK, ListsOK, WorkersOK, CallsOK, ControlOK, vars, workerVars, callVars
<1>4. QED
  BY <1>1, <1>2, <1>3

\* jobs.go, all operations: for any worker pools, requests, stops, signals and
\* restarts the lists hold entries of their own type, a worker holds an entry
\* exactly from its pop to its requeue, and an Enqueue call has its entry.
THEOREM TypeCorrect == Spec => []TypeOK
<1>1. QED
  BY InitTypeOK, StepTypeOK, PTL DEF Spec

-----------------------------------------------------------------------------
(* Urgent entries first. A promoted entry goes to the head whatever it is, so *)
(* the invariant must also know that only urgent entries are promoted.        *)

PromotesUrgent == \A p \in Proc : callStep[p] = "promote" => Urgent(callTask[p].prio)

Ordered(q) == \A i, j \in 1..Len(q) : i < j /\ Urgent(q[j].prio) => Urgent(q[i].prio)

ListsOrdered == \A type \in TaskType : Ordered(queue[type])

\* The insertion of redisPriorityEnqueueScript keeps an ordered list ordered.
LEMMA PriorityInsertOrdered ==
    ASSUME NEW q \in Seq(Task), Ordered(q), NEW t \in Task, Urgent(t.prio),
           NEW i \in 1..(Len(q) + 1), InsertPosition(q, i)
    PROVE  Ordered(InsertAt(q, i, t))
<1> DEFINE new == InsertAt(q, i, t)
<1>1. /\ Len(new) = Len(q) + 1
      /\ \A n \in 1..(Len(q) + 1) : new[n] = IF n < i THEN q[n] ELSE IF n = i THEN t ELSE q[n - 1]
  BY InsertAtEntries
<1>2. \A n \in 1..Len(q) : n >= i => ~Urgent(q[n].prio)
  <2>1. SUFFICES ASSUME NEW n \in 1..Len(q), n >= i, Urgent(q[n].prio) PROVE FALSE
    OBVIOUS
  <2>2. ~Urgent(q[i].prio)  BY <2>1 DEF InsertPosition
  <2>3. i < n  BY <2>1, <2>2
  <2>4. QED  BY <2>1, <2>2, <2>3 DEF Ordered
<1>3. SUFFICES ASSUME NEW m \in 1..Len(new), NEW n \in 1..Len(new), m < n, Urgent(new[n].prio)
               PROVE  Urgent(new[m].prio)
  BY DEF Ordered
<1> HIDE DEF new
<1>4. n <= i
  <2>1. SUFFICES ASSUME n > i PROVE FALSE
    BY <1>1
  <2>2. new[n] = q[n - 1] /\ n - 1 \in 1..Len(q) /\ n - 1 >= i
    BY <1>1, <2>1
  <2>3. QED  BY <1>2, <1>3, <2>2
<1>5. m < i /\ new[m] = q[m]
  BY <1>1, <1>3, <1>4
<1>6. QED
  BY <1>5 DEF InsertPosition

\* Appending an entry that is not urgent keeps an ordered list ordered.
LEMMA AppendOrdered ==
    ASSUME NEW q \in Seq(Task), Ordered(q), NEW t \in Task, ~Urgent(t.prio)
    PROVE  Ordered(InsertAt(q, Len(q) + 1, t))
<1> DEFINE i == Len(q) + 1
           new == InsertAt(q, i, t)
<1>1. i \in 1..(Len(q) + 1)
  OBVIOUS
<1>2. /\ Len(new) = Len(q) + 1
      /\ \A n \in 1..(Len(q) + 1) : new[n] = IF n < i THEN q[n] ELSE IF n = i THEN t ELSE q[n - 1]
  <2> HIDE DEF i
  <2>1. QED  BY <1>1, InsertAtEntries
<1>3. SUFFICES ASSUME NEW m \in 1..Len(new), NEW n \in 1..Len(new), m < n, Urgent(new[n].prio)
               PROVE  Urgent(new[m].prio)
  BY DEF Ordered
<1> HIDE DEF new
<1>4. n # i
  BY <1>2, <1>3
<1>5. n \in 1..Len(q) /\ m \in 1..Len(q) /\ new[n] = q[n] /\ new[m] = q[m]
  BY <1>2, <1>3, <1>4
<1>6. QED
  BY <1>3, <1>5 DEF Ordered

\* redisPromoteTaskScript: out of the list, back at its head.
LEMMA PromoteOrdered ==
    ASSUME NEW q \in Seq(Task), Ordered(q), NEW t \in Task, Urgent(t.prio),
           NEW i \in 1..Len(q)
    PROVE  Ordered(<<t>> \o RemoveAt(q, i))
<1> DEFINE less == RemoveAt(q, i)
           new == <<t>> \o less
<1>1. /\ less \in Seq(Task) /\ Len(less) = Len(q) - 1
      /\ \A n \in 1..(Len(q) - 1) : less[n] = IF n < i THEN q[n] ELSE q[n + 1]
  BY RemoveAtEntries
<1> HIDE DEF less
<1>2. /\ Len(new) = Len(less) + 1
      /\ \A n \in 1..Len(new) : new[n] = IF n = 1 THEN t ELSE less[n - 1]
  BY <1>1
<1>3. Ordered(less)
  <2>1. SUFFICES ASSUME NEW m \in 1..Len(less), NEW n \in 1..Len(less), m < n,
                        Urgent(less[n].prio)
                 PROVE  Urgent(less[m].prio)
    BY DEF Ordered
  <2>2. \E k, l \in 1..Len(q) : k < l /\ less[m] = q[k] /\ less[n] = q[l]
    <3> DEFINE k == IF m < i THEN m ELSE m + 1
               l == IF n < i THEN n ELSE n + 1
    <3>1. k \in 1..Len(q) /\ l \in 1..Len(q) /\ k < l  BY <1>1, <2>1
    <3>2. less[m] = q[k] /\ less[n] = q[l]  BY <1>1, <2>1
    <3>3. QED  BY <3>1, <3>2
  <2>3. QED  BY <2>1, <2>2 DEF Ordered
<1>4. SUFFICES ASSUME NEW m \in 1..Len(new), NEW n \in 1..Len(new), m < n, Urgent(new[n].prio)
               PROVE  Urgent(new[m].prio)
  BY DEF Ordered, less
<1> HIDE DEF new
<1>5. CASE m = 1
  BY <1>2, <1>5
<1>6. CASE m # 1
  <2>1. m - 1 \in 1..Len(less) /\ n - 1 \in 1..Len(less) /\ m - 1 < n - 1
        /\ new[m] = less[m - 1] /\ new[n] = less[n - 1]
    BY <1>1, <1>2, <1>4, <1>6
  <2>2. QED  BY <1>3, <1>4, <2>1 DEF Ordered
<1>7. QED
  BY <1>5, <1>6

LEMMA PushOrdered ==
    ASSUME TypeOK, ListsOrdered, NEW p \in Proc, Push(p)
    PROVE  ListsOrdered'
<1> DEFINE t == callTask[p]
           q == queue[t.type]
<1>1. t \in Task /\ t.type \in TaskType
  BY TaskFacts DEF TypeOK, CallsOK, Push
<1>2. q \in Seq(Task) /\ Ordered(q)
  BY <1>1 DEF TypeOK, ListsOK, ListsOrdered
<1>3. PICK i \in 1..(Len(q) + 1) :
         /\ IF Urgent(t.prio) THEN InsertPosition(q, i) ELSE i = Len(q) + 1
         /\ queue' = [queue EXCEPT ![t.type] = InsertAt(q, i, t)]
  BY DEF Push
<1> DEFINE new == InsertAt(q, i, t)
<1>4. Ordered(new)
  <2> HIDE DEF t, q
  <2>1. CASE Urgent(t.prio)  BY <1>1, <1>2, <1>3, <2>1, PriorityInsertOrdered
  <2>2. CASE ~Urgent(t.prio)
    <3>1. i = Len(q) + 1  BY <1>3, <2>2
    <3>2. QED  BY <1>1, <1>2, <2>2, <3>1, AppendOrdered
  <2>3. QED  BY <2>1, <2>2
<1>5. queue' = [queue EXCEPT ![t.type] = new]
  BY <1>3
<1> HIDE DEF t, q, new
<1>6. QED
  BY <1>4, <1>5 DEF ListsOrdered, TypeOK, ListsOK

LEMMA PromoteStepOrdered ==
    ASSUME TypeOK, ListsOrdered, PromotesUrgent, NEW p \in Proc, Promote(p)
    PROVE  ListsOrdered'
<1> DEFINE t == callTask[p]
           q == queue[t.type]
<1>1. t \in Task /\ t.type \in TaskType /\ Urgent(t.prio)
  BY TaskFacts DEF TypeOK, CallsOK, Promote, PromotesUrgent
<1>2. q \in Seq(Task) /\ Ordered(q) /\ DOMAIN q = 1..Len(q)
  BY <1>1 DEF TypeOK, ListsOK, ListsOrdered
<1>3. CASE UNCHANGED queue
  BY <1>3 DEF ListsOrdered
<1>4. ASSUME NEW i \in 1..Len(q), queue' = [queue EXCEPT ![t.type] = <<t>> \o RemoveAt(q, i)]
      PROVE  ListsOrdered'
  <2> DEFINE new == <<t>> \o RemoveAt(q, i)
  <2>1. Ordered(new)
    <3> HIDE DEF t, q
    <3>1. QED  BY <1>1, <1>2, PromoteOrdered
  <2>2. queue' = [queue EXCEPT ![t.type] = new]
    BY <1>4
  <2> HIDE DEF t, q, new
  <2>3. QED  BY <2>1, <2>2 DEF ListsOrdered, TypeOK, ListsOK
<1>5. QED
  BY <1>2, <1>3, <1>4 DEF Promote

LEMMA PopOrdered ==
    ASSUME TypeOK, ListsOrdered, NEW w \in Worker, Pop(w)
    PROVE  ListsOrdered'
<1>1. PICK n \in DOMAIN Serves[w] :
         /\ queue[Serves[w][n]] # <<>>
         /\ queue' = [queue EXCEPT ![Serves[w][n]] = Tail(@)]
  BY DEF Pop
<1> DEFINE type == Serves[w][n]
           q == queue[type]
<1>2. type \in TaskType
  BY ConstantsAssumption, <1>1 DEF ConstantsAssumption
<1>3. q \in Seq(Task) /\ q # <<>> /\ Ordered(q)
  BY <1>1, <1>2 DEF TypeOK, ListsOK, ListsOrdered
<1>4. Len(Tail(q)) = Len(q) - 1 /\ \A i \in 1..(Len(q) - 1) : Tail(q)[i] = q[i + 1]
  <2> HIDE DEF q
  <2>1. QED  BY <1>3
<1>5. Ordered(Tail(q))
  <2> DEFINE rest == Tail(q)
  <2>1. Len(rest) = Len(q) - 1 /\ \A i \in 1..(Len(q) - 1) : rest[i] = q[i + 1]
    BY <1>4
  <2>2. Len(q) \in Nat
    BY <1>3
  <2> HIDE DEF q, rest
  <2>3. Ordered(rest)
    <3>1. SUFFICES ASSUME NEW i \in 1..Len(rest), NEW j \in 1..Len(rest), i < j,
                          Urgent(rest[j].prio)
                   PROVE  Urgent(rest[i].prio)
      BY DEF Ordered
    <3>2. i + 1 \in 1..Len(q) /\ j + 1 \in 1..Len(q) /\ i + 1 < j + 1
          /\ rest[i] = q[i + 1] /\ rest[j] = q[j + 1]
      BY <2>1, <2>2, <3>1
    <3>3. QED  BY <1>3, <3>1, <3>2 DEF Ordered
  <2>4. QED  BY <2>3 DEF rest
<1>6. queue' = [queue EXCEPT ![type] = Tail(q)]
  BY <1>1
<1> HIDE DEF q, type
<1>7. QED
  BY <1>5, <1>6 DEF ListsOrdered, TypeOK, ListsOK

\* All other steps leave the lists, empty some of them or do not touch them.
LEMMA StepOrdered ==
    ASSUME TypeOK, ListsOrdered, PromotesUrgent, Next
    PROVE  ListsOrdered'
<1>1. CASE \E p \in Proc : Push(p) \/ Promote(p)
  BY <1>1, PushOrdered, PromoteStepOrdered
<1>2. CASE \E w \in Worker : Pop(w)
  BY <1>2, PopOrdered
<1>3. CASE UNCHANGED queue
  BY <1>3 DEF ListsOrdered
<1>4. CASE \A type \in TaskType : queue'[type] \in {<<>>, queue[type]}
  <2>1. Ordered(<<>>)
    <3> DEFINE none == <<>>
    <3>1. 1..Len(none) = {}
      OBVIOUS
    <3> HIDE DEF none
    <3>2. Ordered(none)
      BY <3>1 DEF Ordered
    <3>3. QED  BY <3>2 DEF none
  <2>2. QED  BY <1>4, <2>1 DEF ListsOrdered
<1>5. ClearQueues \/ Restart => \A type \in TaskType : queue'[type] \in {<<>>, queue[type]}
  BY DEF ClearQueues, Restart
<1>6. QED
  <2>1. ASSUME NEW p \in Proc, EnqueueStep(p) PROVE ListsOrdered'
    BY <1>1, <1>3, <2>1 DEF EnqueueStep, Claim, PushFails
  <2>2. ASSUME NEW w \in Worker, WorkerStep(w) PROVE ListsOrdered'
    BY <1>2, <1>3, <2>2 DEF WorkerStep, BeginPoll, PollTimesOut, EnterTask, Acquire,
       AcquireCancelled, Preempt, Finish, ReleaseKey, Requeue
  <2>3. ASSUME NEW c \in Caller, CallerStep(c) PROVE ListsOrdered'
    BY <1>3, <2>3 DEF CallerStep, Submit, RetryEnqueues
  <2>4. CASE RetryExpires
    BY <1>3, <2>4 DEF RetryExpires
  <2>5. CASE StopStep
    BY <1>3, <1>4, <1>5, <2>5 DEF StopStep, BeginStop, CancelActive
  <2>6. CASE SignalStep
    BY <1>3, <2>6 DEF SignalStep, RaiseSignal, LowerSignal, PauseBackground
  <2>7. CASE Restart
    BY <1>4, <1>5, <2>7
  <2>8. QED
    BY <2>1, <2>2, <2>3, <2>4, <2>5, <2>6, <2>7 DEF Next

\* A call turns to promotion only with an urgent entry, which it then keeps.
LEMMA StepPromotesUrgent ==
    ASSUME TypeOK, PromotesUrgent, Next
    PROVE  PromotesUrgent'
<1>1. ASSUME NEW p \in Proc, EndCall(p) PROVE PromotesUrgent'
  BY <1>1 DEF EndCall, PromotesUrgent, TypeOK, CallsOK
<1>2. ASSUME NEW p \in Proc, NEW t, BeginCall(p, t) PROVE PromotesUrgent'
  BY <1>2 DEF BeginCall, PromotesUrgent, TypeOK, CallsOK
<1>3. CASE UNCHANGED callVars
  BY <1>3 DEF callVars, PromotesUrgent
<1>4. ASSUME NEW p \in Proc, Claim(p) PROVE PromotesUrgent'
  BY <1>1, <1>4 DEF Claim, PromotesUrgent, TypeOK, CallsOK
<1>5. ASSUME NEW p \in Proc, EnqueueStep(p) PROVE PromotesUrgent'
  BY <1>1, <1>4, <1>5 DEF EnqueueStep, Push, PushFails, Promote
<1>6. ASSUME NEW w \in Worker, WorkerStep(w) PROVE PromotesUrgent'
  <2>1. CASE Requeue(w)
    BY <1>2, <1>3, <2>1 DEF Requeue, Proc
  <2>2. QED
    BY <1>3, <1>6, <2>1 DEF WorkerStep, BeginPoll, PollTimesOut, Pop, EnterTask, Acquire,
       AcquireCancelled, Preempt, Finish, ReleaseKey
<1>7. ASSUME NEW c \in Caller, CallerStep(c) PROVE PromotesUrgent'
  BY <1>2, <1>7 DEF CallerStep, Submit, RetryEnqueues, Proc
<1>8. CASE RetryExpires \/ StopStep \/ SignalStep
  BY <1>3, <1>8 DEF RetryExpires, StopStep, BeginStop, ClearQueues, CancelActive,
     SignalStep, RaiseSignal, LowerSignal, PauseBackground
<1>9. CASE Restart
  BY <1>9 DEF Restart, PromotesUrgent
<1>10. QED
  BY <1>5, <1>6, <1>7, <1>8, <1>9 DEF Next

UrgentInv == TypeOK /\ ListsOrdered /\ PromotesUrgent

LEMMA InitUrgent == Init => UrgentInv
<1>1. SUFFICES ASSUME Init PROVE ListsOrdered /\ PromotesUrgent
  BY InitTypeOK DEF UrgentInv
<1> DEFINE none == <<>>
<1>2. 1..Len(none) = {}
  OBVIOUS
<1>3. \A type \in TaskType : queue[type] = none
  BY <1>1 DEF Init
<1> HIDE DEF none
<1>4. ListsOrdered
  BY <1>2, <1>3 DEF ListsOrdered, Ordered
<1>5. PromotesUrgent
  BY <1>1 DEF Init, PromotesUrgent
<1>6. QED
  BY <1>4, <1>5

LEMMA StepUrgent == UrgentInv /\ [Next]_vars => UrgentInv'
<1>1. SUFFICES ASSUME UrgentInv, [Next]_vars PROVE UrgentInv'
  OBVIOUS
<1>2. TypeOK'
  BY <1>1, StepTypeOK DEF UrgentInv
<1>3. CASE Next
  BY <1>1, <1>2, <1>3, StepOrdered, StepPromotesUrgent DEF UrgentInv
<1>4. CASE UNCHANGED vars
  BY <1>1, <1>2, <1>4 DEF UrgentInv, vars, callVars, ListsOrdered, PromotesUrgent
<1>5. QED
  BY <1>1, <1>3, <1>4

\* jobs.go 72-99, the two scripts: whatever mix of pushes, promotions, requeues,
\* clears and restarts, urgent entries stand before all others in every list.
THEOREM UrgentEntriesLead == Spec => []UrgentFirst
<1>1. UrgentInv => UrgentFirst
  <2>1. SUFFICES ASSUME UrgentInv, NEW type \in TaskType PROVE
            \A i, j \in DOMAIN queue[type] :
                i < j /\ Urgent(queue[type][j].prio) => Urgent(queue[type][i].prio)
    BY DEF UrgentFirst
  <2> DEFINE q == queue[type]
  <2>2. q \in Seq(Task) /\ Ordered(q)
    BY <2>1 DEF UrgentInv, TypeOK, ListsOK, ListsOrdered
  <2> HIDE DEF q
  <2>3. DOMAIN q = 1..Len(q)
    BY <2>2
  <2>4. \A i, j \in DOMAIN q : i < j /\ Urgent(q[j].prio) => Urgent(q[i].prio)
    BY <2>2, <2>3 DEF Ordered
  <2>5. QED  BY <2>4 DEF q
<1>2. QED
  BY <1>1, InitUrgent, StepUrgent, PTL DEF Spec

-----------------------------------------------------------------------------
(* Where an item is held, without user stops                               *)

NoStops == MaxStops = 0

-----------------------------------------------------------------------------
(* One list: where its entries of a key are *)

At(q, k) == {i \in 1..Len(q) : Key(q[i]) = k}

\* The priority insert and the plain push (redisPriorityEnqueueScript, RPUSH)
\* add an entry of their own key and leave those of all others.
LEMMA InsertHolds ==
    ASSUME NEW q \in Seq(Task), NEW t \in Task, NEW i \in 1..(Len(q) + 1), NEW k
    PROVE  /\ Key(t) # k => /\ AtMostOne(At(q, k)) => AtMostOne(At(InsertAt(q, i, t), k))
                            /\ At(InsertAt(q, i, t), k) = {} <=> At(q, k) = {}
           /\ Key(t) = k => /\ At(InsertAt(q, i, t), k) # {}
                            /\ At(q, k) = {} => AtMostOne(At(InsertAt(q, i, t), k))
<1> DEFINE new == InsertAt(q, i, t)
<1>1. /\ Len(new) = Len(q) + 1 /\ Len(q) \in Nat
      /\ \A n \in 1..(Len(q) + 1) :
            new[n] = IF n < i THEN q[n] ELSE IF n = i THEN t ELSE q[n - 1]
  BY InsertAtEntries
<1> HIDE DEF new
<1>2. \A n \in 1..Len(new) : n # i => /\ IF n < i THEN n \in 1..Len(q) ELSE n - 1 \in 1..Len(q)
                                      /\ new[n] = IF n < i THEN q[n] ELSE q[n - 1]
  BY <1>1
<1>3. \A n \in 1..Len(q) : IF n < i THEN n \in 1..Len(new) /\ new[n] = q[n]
                                    ELSE n + 1 \in 1..Len(new) /\ new[n + 1] = q[n]
  BY <1>1
<1>4. i \in 1..Len(new) /\ new[i] = t
  BY <1>1
<1>5. ASSUME Key(t) # k, AtMostOne(At(q, k)) PROVE AtMostOne(At(new, k))
  <2>1. SUFFICES ASSUME NEW x \in At(new, k), NEW y \in At(new, k) PROVE x = y
    BY DEF AtMostOne
  <2>2. x \in 1..Len(new) /\ y \in 1..Len(new) /\ x # i /\ y # i /\ Key(new[x]) = k /\ Key(new[y]) = k
    BY <1>4, <1>5 DEF At
  <2> DEFINE a == IF x < i THEN x ELSE x - 1
             b == IF y < i THEN y ELSE y - 1
  <2>3. a \in At(q, k) /\ b \in At(q, k)
    BY <1>2, <2>2 DEF At
  <2>4. a = b
    BY <1>5, <2>3 DEF AtMostOne
  <2>5. QED  BY <2>2, <2>4
<1>6. ASSUME Key(t) # k PROVE At(new, k) = {} <=> At(q, k) = {}
  BY <1>2, <1>3, <1>4, <1>6 DEF At
<1>7. ASSUME Key(t) = k PROVE At(new, k) # {}
  BY <1>4, <1>7 DEF At
<1>8. ASSUME Key(t) = k, At(q, k) = {} PROVE AtMostOne(At(new, k))
  BY <1>2, <1>8 DEF At, AtMostOne
<1>9. QED
  BY <1>5, <1>6, <1>7, <1>8 DEF new

\* redisPromoteTaskScript puts an entry in the place of one of the same key: no
\* key gains or loses its entry.
LEMMA PromoteHolds ==
    ASSUME NEW q \in Seq(Task), NEW t \in Task, NEW i \in 1..Len(q), Key(q[i]) = Key(t), NEW k
    PROVE  /\ AtMostOne(At(q, k)) => AtMostOne(At(<<t>> \o RemoveAt(q, i), k))
           /\ At(<<t>> \o RemoveAt(q, i), k) = {} <=> At(q, k) = {}
<1> DEFINE less == RemoveAt(q, i)
           new == <<t>> \o less
<1>1. /\ less \in Seq(Task) /\ Len(less) = Len(q) - 1 /\ Len(q) \in Nat
      /\ \A n \in 1..(Len(q) - 1) : less[n] = IF n < i THEN q[n] ELSE q[n + 1]
  BY RemoveAtEntries
<1>2. /\ Len(new) = Len(q)
      /\ new[1] = t
      /\ \A n \in 2..Len(q) : new[n] = less[n - 1]
  <2> HIDE DEF less
  <2>1. QED  BY <1>1
<1> HIDE DEF less, new
<1>3. \A n \in 2..Len(q) : new[n] = IF n <= i THEN q[n - 1] ELSE q[n]
  BY <1>1, <1>2
<1>4. ASSUME AtMostOne(At(q, k)) PROVE AtMostOne(At(new, k))
  <2>1. SUFFICES ASSUME NEW x \in At(new, k), NEW y \in At(new, k) PROVE x = y
    BY DEF AtMostOne
  <2>2. x \in 1..Len(q) /\ y \in 1..Len(q) /\ Key(new[x]) = k /\ Key(new[y]) = k
    BY <1>2 DEF At
  <2> DEFINE From(n) == IF n = 1 THEN i ELSE IF n <= i THEN n - 1 ELSE n
  <2>3. \A n \in 1..Len(q) : From(n) \in 1..Len(q) /\ Key(q[From(n)]) = Key(new[n])
    BY <1>1, <1>2, <1>3
  <2>4. From(x) \in At(q, k) /\ From(y) \in At(q, k)
    BY <2>2, <2>3 DEF At
  <2>5. From(x) = From(y)
    BY <1>4, <2>4 DEF AtMostOne
  <2>6. QED  BY <2>2, <2>5
<1>5. At(new, k) = {} => At(q, k) = {}
  <2>1. \A n \in 1..Len(q) :
           LET m == IF n = i THEN 1 ELSE IF n < i THEN n + 1 ELSE n
           IN m \in 1..Len(new) /\ Key(new[m]) = Key(q[n])
    BY <1>1, <1>2, <1>3
  <2>2. QED  BY <2>1 DEF At
<1>6. At(q, k) = {} => At(new, k) = {}
  <2>1. \A n \in 1..Len(q) :
           LET m == IF n = 1 THEN i ELSE IF n <= i THEN n - 1 ELSE n
           IN m \in 1..Len(q) /\ Key(new[n]) = Key(q[m])
    BY <1>1, <1>2, <1>3
  <2>2. QED  BY <1>2, <2>1 DEF At
<1>7. QED
  BY <1>4, <1>5, <1>6 DEF new, less

\* BLPOP takes the first entry and leaves those of other keys.
LEMMA TailHolds ==
    ASSUME NEW q \in Seq(Task), q # <<>>, NEW k
    PROVE  /\ AtMostOne(At(q, k)) => AtMostOne(At(Tail(q), k))
           /\ Key(Head(q)) # k => (At(Tail(q), k) = {} <=> At(q, k) = {})
           /\ Key(Head(q)) = k => /\ At(q, k) # {}
                                  /\ AtMostOne(At(q, k)) => At(Tail(q), k) = {}
<1> DEFINE rest == Tail(q)
<1>1. Len(rest) = Len(q) - 1 /\ Len(q) \in Nat \ {0} /\ Head(q) = q[1]
      /\ \A n \in 1..(Len(q) - 1) : rest[n] = q[n + 1]
  OBVIOUS
<1> HIDE DEF rest
<1>2. \A n \in 1..Len(rest) : n + 1 \in 1..Len(q) /\ rest[n] = q[n + 1]
  BY <1>1
<1>3. AtMostOne(At(q, k)) => AtMostOne(At(rest, k))
  <2>1. SUFFICES ASSUME AtMostOne(At(q, k)), NEW x \in At(rest, k), NEW y \in At(rest, k) PROVE x = y
    BY DEF AtMostOne
  <2>2. x + 1 \in At(q, k) /\ y + 1 \in At(q, k) /\ x \in Nat /\ y \in Nat
    BY <1>1, <1>2 DEF At
  <2>3. QED  BY <2>1, <2>2 DEF AtMostOne
<1>4. \A n \in 1..Len(q) : n = 1 \/ (n - 1 \in 1..Len(rest) /\ rest[n - 1] = q[n])
  BY <1>1
<1>5. Key(Head(q)) # k => (At(rest, k) = {} <=> At(q, k) = {})
  BY <1>1, <1>2, <1>4 DEF At
<1>6. ASSUME Key(Head(q)) = k PROVE 1 \in At(q, k)
  BY <1>1, <1>6 DEF At
<1>7. ASSUME Key(Head(q)) = k, AtMostOne(At(q, k)), NEW x \in At(rest, k) PROVE FALSE
  <2>1. x + 1 \in At(q, k) /\ x \in 1..Len(rest)
    BY <1>1, <1>2, <1>7 DEF At
  <2>2. QED  BY <1>6, <1>7, <2>1 DEF AtMostOne
<1>8. QED
  BY <1>3, <1>5, <1>6, <1>7 DEF rest

-----------------------------------------------------------------------------
(* The invariant, one media key at a time *)

Once(k) ==
    /\ AtMostOne(QueuedAt(k)) /\ AtMostOne(PushingTo(k)) /\ AtMostOne(WorkedBy(k))
    /\ QueuedAt(k) = {} \/ PushingTo(k) = {}
    /\ QueuedAt(k) = {} \/ WorkedBy(k) = {}
    /\ PushingTo(k) = {} \/ WorkedBy(k) = {}
Exact(k) == Held(k) <=> k \in queued
NoneClears == stop.step # "clear"
\* A worker enqueues only after it has let its entry go.
BusyMakesNoCall == \A w \in Worker : wpc[w] # "idle" => callStep[w] = "none"
HeldInv == TypeOK /\ NoneClears /\ BusyMakesNoCall /\ \A k \in MediaKeys : Once(k) /\ Exact(k)

PlacesStay(k) ==
    /\ UNCHANGED <<QueuedAt(k), PushingTo(k), WorkedBy(k)>>
    /\ (k \in queued') = (k \in queued)

LEMMA MediaKeyFacts ==
    ASSUME NEW k \in MediaKeys
    PROVE  k[1] \in TaskType /\ k[1] \in MediaType /\ Keyed(k[1]) /\ k = <<k[1], k[2]>>
  BY DEF MediaKeys, Keyed

LEMMA QueuedAtList ==
    ASSUME NEW k \in MediaKeys
    PROVE  /\ TypeOK  => QueuedAt(k) = At(queue[k[1]], k) /\ queue[k[1]] \in Seq(Task)
           /\ TypeOK' => QueuedAt(k)' = At(queue'[k[1]], k)
<1>1. k[1] \in TaskType
  BY MediaKeyFacts
<1>2. ASSUME NEW q \in Seq(Task) PROVE DOMAIN q = 1..Len(q)
  OBVIOUS
<1>3. TypeOK => queue[k[1]] \in Seq(Task)
  BY <1>1 DEF TypeOK, ListsOK
<1>4. TypeOK' => queue'[k[1]] \in Seq(Task)
  BY <1>1 DEF TypeOK, ListsOK
<1>5. QED
  BY <1>2, <1>3, <1>4 DEF QueuedAt, At

\* Steps that move no media item keep the invariant.
LEMMA StayHeld ==
    ASSUME NEW k, Once(k), Exact(k), PlacesStay(k)
    PROVE  Once(k)' /\ Exact(k)'
  BY DEF Once, Exact, Held, PlacesStay

-----------------------------------------------------------------------------
(* Enqueue *)

\* A call that claims a free key is the only holder of the item; one that meets
\* a taken key leaves or goes on to promote.
LEMMA ClaimHeld ==
    ASSUME TypeOK, NEW k \in MediaKeys, Once(k), Exact(k), NEW p \in Proc, Claim(p)
    PROVE  Once(k)' /\ Exact(k)'
<1> DEFINE t == callTask[p]
<1>1. /\ t \in Task /\ callStep[p] = "claim" /\ callStep \in [Proc -> {"none", "claim", "push", "promote"}]
      /\ callTask \in [Proc -> Task \cup {NoTask}]
  BY DEF TypeOK, CallsOK, Claim
<1>2. UNCHANGED <<QueuedAt(k), WorkedBy(k)>>
  BY DEF Claim, workerVars, QueuedAt, WorkedBy
<1>3. CASE Keyed(t.type) /\ Key(t) \in queued
  <2>1. callStep'[p] # "push" /\ \A r \in Proc \ {p} : callStep'[r] = callStep[r] /\ callTask'[r] = callTask[r]
    BY <1>1, <1>3 DEF Claim, EndCall
  <2>2. UNCHANGED <<PushingTo(k), queued>>
    BY <1>1, <1>3, <2>1 DEF Claim, PushingTo
  <2>3. QED  BY <1>2, <2>2, StayHeld DEF PlacesStay
<1>4. CASE ~(Keyed(t.type) /\ Key(t) \in queued)
  <2>1. /\ callTask' = callTask /\ callStep' = [callStep EXCEPT ![p] = "push"]
        /\ queued' = IF Keyed(t.type) THEN queued \cup {Key(t)} ELSE queued
    BY <1>4 DEF Claim
  <2>2. PushingTo(k)' = IF Key(t) = k THEN PushingTo(k) \cup {p} ELSE PushingTo(k)
    BY <1>1, <2>1 DEF PushingTo
  <2>3. CASE Key(t) = k
    <3>1. Keyed(t.type) /\ k \notin queued
      BY <1>4, <2>3, MediaKeyFacts DEF Key
    <3>2. QueuedAt(k) = {} /\ PushingTo(k) = {} /\ WorkedBy(k) = {}
      BY <3>1 DEF Exact, Held
    <3>3. PushingTo(k)' = {p} /\ k \in queued'
      BY <2>1, <2>2, <2>3, <3>1, <3>2
    <3>4. QED  BY <1>2, <3>2, <3>3 DEF Once, Exact, Held, AtMostOne
  <2>4. CASE Key(t) # k
    <3>1. PlacesStay(k)
      BY <1>2, <2>1, <2>2, <2>4 DEF PlacesStay
    <3>2. QED  BY <3>1, StayHeld
  <2>5. QED  BY <2>3, <2>4
<1>5. QED
  BY <1>3, <1>4

\* The end of a call that was pushing leaves the item to nobody else's push.
LEMMA EndedPush ==
    ASSUME TypeOK, NEW k \in MediaKeys, AtMostOne(PushingTo(k)),
           NEW p \in Proc, callStep[p] = "push", EndCall(p)
    PROVE  PushingTo(k)' = IF Key(callTask[p]) = k THEN {} ELSE PushingTo(k)
<1>1. callStep \in [Proc -> {"none", "claim", "push", "promote"}] /\ callTask \in [Proc -> Task \cup {NoTask}]
  BY DEF TypeOK, CallsOK
<1>2. callStep'[p] = "none" /\ \A r \in Proc \ {p} : callStep'[r] = callStep[r] /\ callTask'[r] = callTask[r]
  BY <1>1 DEF EndCall
<1>3. PushingTo(k)' = PushingTo(k) \ {p}
  BY <1>2 DEF PushingTo
<1>4. p \in PushingTo(k) <=> Key(callTask[p]) = k
  BY DEF PushingTo
<1>5. QED
  BY <1>3, <1>4 DEF AtMostOne

\* A push moves the item from the call into the list.
LEMMA PushHeld ==
    ASSUME TypeOK, NEW k \in MediaKeys, Once(k), Exact(k), NEW p \in Proc, Push(p)
    PROVE  Once(k)' /\ Exact(k)'
<1> DEFINE t == callTask[p]
           q == queue[t.type]
<1>1. t \in Task /\ t.type \in TaskType /\ callStep[p] = "push"
  BY TaskFacts DEF TypeOK, CallsOK, Push
<1>2. PICK i \in 1..(Len(q) + 1) : queue' = [queue EXCEPT ![t.type] = InsertAt(q, i, t)]
  BY DEF Push
<1>3. UNCHANGED <<WorkedBy(k), queued>>
  BY DEF Push, workerVars, WorkedBy
<1>4. PushingTo(k)' = IF Key(t) = k THEN {} ELSE PushingTo(k)
  BY <1>1, EndedPush DEF Push, Once
<1>5. q \in Seq(Task) /\ queue \in [TaskType -> Seq(Task)]
  BY <1>1 DEF TypeOK, ListsOK
<1>6. TypeOK'
  BY EnqueueTypeOK DEF EnqueueStep
<1>7. QueuedAt(k) = At(queue[k[1]], k) /\ QueuedAt(k)' = At(queue'[k[1]], k)
  BY <1>6, QueuedAtList
<1>8. CASE k[1] # t.type
  <2>1. queue'[k[1]] = queue[k[1]] /\ Key(t) # k
    BY <1>2, <1>5, <1>8, MediaKeyFacts DEF Key
  <2>2. QED  BY <1>3, <1>4, <1>7, <2>1, StayHeld DEF PlacesStay
<1>9. CASE k[1] = t.type
  <2>1. queue[k[1]] = q /\ queue'[k[1]] = InsertAt(q, i, t)
    BY <1>1, <1>2, <1>5, <1>9
  <2> DEFINE new == InsertAt(q, i, t)
  <2>2. /\ Key(t) # k => /\ AtMostOne(At(q, k)) => AtMostOne(At(new, k))
                         /\ At(new, k) = {} <=> At(q, k) = {}
        /\ Key(t) = k => At(new, k) # {} /\ (At(q, k) = {} => AtMostOne(At(new, k)))
    <3> HIDE DEF t, q
    <3>1. QED  BY <1>1, <1>5, <1>2, InsertHolds
  <2>3. CASE Key(t) = k
    <3>1. p \in PushingTo(k)
      BY <1>1, <2>3 DEF PushingTo
    <3>2. QueuedAt(k) = {} /\ WorkedBy(k) = {} /\ k \in queued
      BY <3>1 DEF Once, Exact, Held
    <3>3. QueuedAt(k)' # {} /\ AtMostOne(QueuedAt(k)') /\ PushingTo(k)' = {} /\ WorkedBy(k)' = {} /\ k \in queued'
      BY <1>3, <1>4, <1>7, <2>1, <2>2, <2>3, <3>2
    <3>4. QED  BY <3>3 DEF Once, Exact, Held, AtMostOne
  <2>4. CASE Key(t) # k
    <3>1. /\ PushingTo(k)' = PushingTo(k) /\ WorkedBy(k)' = WorkedBy(k) /\ queued' = queued
          /\ AtMostOne(QueuedAt(k)) => AtMostOne(QueuedAt(k)')
          /\ QueuedAt(k)' = {} <=> QueuedAt(k) = {}
      BY <1>3, <1>4, <1>7, <2>1, <2>2, <2>4
    <3>2. QED  BY <3>1 DEF Once, Exact, Held
  <2>5. QED  BY <2>3, <2>4
<1>10. QED
  BY <1>8, <1>9

\* A push that fails gives the key back with the item.
LEMMA PushFailsHeld ==
    ASSUME TypeOK, NEW k \in MediaKeys, Once(k), Exact(k), NEW p \in Proc, PushFails(p)
    PROVE  Once(k)' /\ Exact(k)'
<1>1. UNCHANGED <<QueuedAt(k), WorkedBy(k)>> /\ callStep[p] = "push"
  BY DEF PushFails, workerVars, QueuedAt, WorkedBy
<1>2. PushingTo(k)' = IF Key(callTask[p]) = k THEN {} ELSE PushingTo(k)
  BY <1>1, EndedPush DEF PushFails, Once
<1>3. queued' = queued \ {Key(callTask[p])}
  BY DEF PushFails
<1>4. CASE Key(callTask[p]) = k
  <2>1. p \in PushingTo(k)
    BY <1>1, <1>4 DEF PushingTo
  <2>2. QueuedAt(k) = {} /\ WorkedBy(k) = {}
    BY <2>1 DEF Once
  <2>3. QED  BY <1>1, <1>2, <1>3, <1>4, <2>2 DEF Once, Exact, Held, AtMostOne
<1>5. CASE Key(callTask[p]) # k
  BY <1>1, <1>2, <1>3, <1>5, StayHeld DEF PlacesStay
<1>6. QED
  BY <1>4, <1>5

\* What the promote script takes for the same media entry has the same key.
LEMMA SameMediaKey ==
    ASSUME NEW t \in Task, NEW u \in Task, t.type \in MediaType, SameForPromote(u, t)
    PROVE  Key(u) = Key(t)
  BY DEF SameForPromote, AssetOf, Key

LEMMA PromoteHeld ==
    ASSUME TypeOK, NEW k \in MediaKeys, Once(k), Exact(k), NEW p \in Proc, Promote(p)
    PROVE  Once(k)' /\ Exact(k)'
<1> DEFINE t == callTask[p]
           q == queue[t.type]
<1>1. t \in Task /\ t.type \in TaskType /\ callStep[p] = "promote"
  BY TaskFacts DEF TypeOK, CallsOK, Promote
<1>2. UNCHANGED <<PushingTo(k), WorkedBy(k), queued>>
  <2>1. callStep'[p] # "push" /\ \A r \in Proc \ {p} : callStep'[r] = callStep[r] /\ callTask'[r] = callTask[r]
    BY DEF Promote, EndCall, TypeOK, CallsOK
  <2>2. PushingTo(k)' = PushingTo(k)
    BY <1>1, <2>1 DEF PushingTo
  <2>3. QED  BY <2>2 DEF Promote, workerVars, WorkedBy
<1>3. q \in Seq(Task) /\ DOMAIN q = 1..Len(q) /\ queue \in [TaskType -> Seq(Task)]
  BY <1>1 DEF TypeOK, ListsOK
<1>4. QueuedAt(k) = At(queue[k[1]], k) /\ QueuedAt(k)' = At(queue'[k[1]], k)
  BY EnqueueTypeOK, QueuedAtList DEF EnqueueStep
<1>5. CASE queue'[k[1]] = queue[k[1]]
  BY <1>2, <1>4, <1>5, StayHeld DEF PlacesStay
<1>6. ASSUME NEW i \in 1..Len(q), SameForPromote(q[i], t), k[1] = t.type,
             queue' = [queue EXCEPT ![t.type] = <<t>> \o RemoveAt(q, i)]
      PROVE  Once(k)' /\ Exact(k)'
  <2> DEFINE new == <<t>> \o RemoveAt(q, i)
  <2>1. queue'[k[1]] = new /\ queue[k[1]] = q
    BY <1>1, <1>3, <1>6
  <2>2. Key(q[i]) = Key(t)
    <3>1. q[i] \in Task
      BY <1>3, <1>6
    <3>2. QED  BY <1>1, <1>6, <3>1, SameMediaKey, MediaKeyFacts
  <2>3. (AtMostOne(At(q, k)) => AtMostOne(At(new, k))) /\ (At(new, k) = {} <=> At(q, k) = {})
    <3> HIDE DEF t, q
    <3>1. QED  BY <1>1, <1>3, <1>6, <2>2, PromoteHolds
  <2> HIDE DEF new
  <2>4. /\ AtMostOne(QueuedAt(k)) => AtMostOne(QueuedAt(k)')
        /\ QueuedAt(k)' = {} <=> QueuedAt(k) = {}
    BY <1>4, <2>1, <2>3
  <2>5. QED  BY <1>2, <2>4 DEF Once, Exact, Held
<1>7. QED
  <2>1. UNCHANGED queue \/ \E i \in 1..Len(q) :
            SameForPromote(q[i], t) /\ queue' = [queue EXCEPT ![t.type] = <<t>> \o RemoveAt(q, i)]
    BY <1>3 DEF Promote
  <2>2. k[1] # t.type /\ queue' # queue => queue'[k[1]] = queue[k[1]]
    BY <1>3, <2>1, MediaKeyFacts
  <2>3. QED  BY <1>5, <1>6, <2>1, <2>2

-----------------------------------------------------------------------------
(* The worker *)

\* A worker takes the item out of the list into its own hands.
LEMMA PopHeld ==
    ASSUME TypeOK, NEW k \in MediaKeys, Once(k), Exact(k), NEW w \in Worker, Pop(w)
    PROVE  Once(k)' /\ Exact(k)'
<1>1. PICK n \in DOMAIN Serves[w] :
         /\ queue[Serves[w][n]] # <<>>
         /\ wtask' = [wtask EXCEPT ![w] = Head(queue[Serves[w][n]])]
         /\ queue' = [queue EXCEPT ![Serves[w][n]] = Tail(@)]
  BY DEF Pop
<1> DEFINE type == Serves[w][n]
           q == queue[type]
           t == Head(q)
<1>2. type \in TaskType
  BY ConstantsAssumption, <1>1 DEF ConstantsAssumption
<1>3. q \in Seq(Task) /\ q # <<>> /\ queue \in [TaskType -> Seq(Task)]
  BY <1>1, <1>2 DEF TypeOK, ListsOK
<1>4. t.type = type
  <2>1. 1 \in DOMAIN q /\ t = q[1]
    <3> HIDE DEF q
    <3>1. QED  BY <1>3
  <2>2. QED  BY <1>2, <2>1 DEF TypeOK, ListsOK
<1>5. UNCHANGED <<PushingTo(k), queued>>
  BY DEF Pop, callVars, PushingTo
<1>6. WorkedBy(k)' = IF Key(t) = k THEN WorkedBy(k) \cup {w} ELSE WorkedBy(k)
  <2>1. /\ wpc[w] \notin Working /\ wpc'[w] \in Working /\ wtask'[w] = t
        /\ \A v \in Worker \ {w} : wpc'[v] = wpc[v] /\ wtask'[v] = wtask[v]
    BY <1>1 DEF Pop, Working, TypeOK, WorkersOK
  <2> HIDE DEF t
  <2>2. QED  BY <2>1 DEF WorkedBy, Working
<1>7. QueuedAt(k) = At(queue[k[1]], k) /\ QueuedAt(k)' = At(queue'[k[1]], k)
  BY WorkerTypeOK, QueuedAtList DEF WorkerStep
<1>8. CASE k[1] # type
  <2>1. queue'[k[1]] = queue[k[1]] /\ Key(t) # k
    BY <1>1, <1>3, <1>4, <1>8, MediaKeyFacts DEF Key
  <2>2. QED  BY <1>5, <1>6, <1>7, <2>1, StayHeld DEF PlacesStay
<1>9. CASE k[1] = type
  <2> DEFINE rest == Tail(q)
  <2>1. queue[k[1]] = q /\ queue'[k[1]] = rest
    BY <1>1, <1>2, <1>3, <1>9
  <2>2. /\ AtMostOne(At(q, k)) => AtMostOne(At(rest, k))
        /\ Key(t) # k => (At(rest, k) = {} <=> At(q, k) = {})
        /\ Key(t) = k => At(q, k) # {} /\ (AtMostOne(At(q, k)) => At(rest, k) = {})
    <3> HIDE DEF q
    <3>1. QED  BY <1>3, TailHolds
  <2> HIDE DEF rest, t
  <2>3. CASE Key(t) = k
    <3>1. QueuedAt(k) # {} /\ AtMostOne(QueuedAt(k))
      BY <1>7, <2>1, <2>2, <2>3 DEF Once
    <3>2. PushingTo(k) = {} /\ WorkedBy(k) = {} /\ k \in queued
      BY <3>1 DEF Once, Exact, Held
    <3>3. QueuedAt(k)' = {} /\ PushingTo(k)' = {} /\ WorkedBy(k)' = {w} /\ k \in queued'
      BY <1>5, <1>6, <1>7, <2>1, <2>2, <2>3, <3>1, <3>2
    <3>4. QED  BY <3>3 DEF Once, Exact, Held, AtMostOne
  <2>4. CASE Key(t) # k
    <3>1. /\ AtMostOne(QueuedAt(k)) => AtMostOne(QueuedAt(k)')
          /\ QueuedAt(k)' = {} <=> QueuedAt(k) = {}
      BY <1>7, <2>1, <2>2, <2>4
    <3>2. QED  BY <1>5, <1>6, <2>4, <3>1 DEF Once, Exact, Held
  <2>5. QED  BY <2>3, <2>4
<1>10. QED
  BY <1>8, <1>9

\* The worker gives the key back and lets the item go.
LEMMA ReleaseHeld ==
    ASSUME TypeOK, NEW k \in MediaKeys, Once(k), Exact(k), NEW w \in Worker, ReleaseKey(w)
    PROVE  Once(k)' /\ Exact(k)'
<1>1. UNCHANGED <<QueuedAt(k), PushingTo(k)>>
  BY DEF ReleaseKey, callVars, QueuedAt, PushingTo
<1>2. WorkedBy(k)' = WorkedBy(k) \ {w}
  <2>1. /\ wpc'[w] \notin Working /\ wtask' = wtask
        /\ \A v \in Worker \ {w} : wpc'[v] = wpc[v]
    BY DEF ReleaseKey, Working, TypeOK, WorkersOK
  <2>2. QED  BY <2>1 DEF WorkedBy, Working
<1>3. w \in WorkedBy(k) <=> Key(wtask[w]) = k
  BY DEF ReleaseKey, WorkedBy, Working
<1>4. queued' = queued \ {Key(wtask[w])}
  BY DEF ReleaseKey
<1>5. CASE Key(wtask[w]) = k
  <2>1. QueuedAt(k) = {} /\ PushingTo(k) = {} /\ WorkedBy(k)' = {}
    BY <1>2, <1>3, <1>5 DEF Once, AtMostOne
  <2>2. QED  BY <1>1, <1>4, <1>5, <2>1 DEF Once, Exact, Held, AtMostOne
<1>6. CASE Key(wtask[w]) # k
  <2>1. WorkedBy(k)' = WorkedBy(k)
    BY <1>2, <1>3, <1>6
  <2>2. QED  BY <1>1, <1>4, <1>6, <2>1, StayHeld DEF PlacesStay
<1>7. QED
  BY <1>5, <1>6

\* Every other step of a worker leaves the item where it is: it starts, waits,
\* fails or enqueues again with the entry in hand, or with none.
LEMMA OtherWorkerStepsHeld ==
    ASSUME TypeOK, BusyMakesNoCall, NEW k \in MediaKeys, Once(k), Exact(k), NEW w \in Worker,
           \/ BeginPoll(w) \/ PollTimesOut(w) \/ EnterTask(w) \/ Acquire(w)
           \/ AcquireCancelled(w) \/ Preempt(w) \/ Finish(w) \/ Requeue(w)
    PROVE  Once(k)' /\ Exact(k)'
<1>1. UNCHANGED <<QueuedAt(k), queued>>
  BY DEF BeginPoll, PollTimesOut, EnterTask, Acquire, AcquireCancelled, Preempt, Finish,
         Requeue, QueuedAt
<1>2. PushingTo(k)' = PushingTo(k)
  <2>1. CASE UNCHANGED callVars
    BY <2>1 DEF callVars, PushingTo
  <2>2. ASSUME NEW t, BeginCall(w, t), callStep[w] # "push" PROVE PushingTo(k)' = PushingTo(k)
    BY <2>2 DEF BeginCall, PushingTo, TypeOK, CallsOK, Proc
  <2>3. QED
    <3>1. ASSUME Requeue(w) PROVE PushingTo(k)' = PushingTo(k)
      <4>1. callStep[w] # "push"
        BY <3>1 DEF Requeue, BusyMakesNoCall
      <4>2. QED  BY <2>1, <2>2, <3>1, <4>1 DEF Requeue
    <3>2. QED
      BY <2>1, <3>1 DEF BeginPoll, PollTimesOut, EnterTask, Acquire, AcquireCancelled, Preempt,
         Finish
<1>3. WorkedBy(k)' = WorkedBy(k)
  <2> USE DEF Working, TypeOK, WorkersOK
  <2> DEFINE Same == /\ wpc'[w] \in Working <=> wpc[w] \in Working
                     /\ wpc[w] \in Working => wtask'[w] = wtask[w]
                     /\ \A v \in Worker \ {w} : wpc'[v] = wpc[v] /\ wtask'[v] = wtask[v]
  <2>1. BeginPoll(w) \/ PollTimesOut(w) => Same
    BY DEF BeginPoll, PollTimesOut
  <2>2. EnterTask(w) \/ Acquire(w) => Same
    BY DEF EnterTask, Acquire
  <2>3. AcquireCancelled(w) \/ Preempt(w) => Same
    BY DEF AcquireCancelled, Preempt, Cancellable
  <2>4. Finish(w) => Same
    BY DEF Finish
  <2>5. Requeue(w) => Same
    BY DEF Requeue
  <2>6. QED  BY <2>1, <2>2, <2>3, <2>4, <2>5 DEF WorkedBy
<1>4. QED
  BY <1>1, <1>2, <1>3, StayHeld DEF PlacesStay

-----------------------------------------------------------------------------
(* Callers, timers, signals, the restart *)

\* A goroutine that starts a call holds nothing yet.
LEMMA BegunCallHeld ==
    ASSUME TypeOK, NEW k \in MediaKeys, Once(k), Exact(k), NEW c \in Caller, CallerStep(c)
    PROVE  Once(k)' /\ Exact(k)'
<1>1. UNCHANGED <<queue, queued, workerVars>> /\ callStep[c] = "none"
  BY DEF CallerStep, Submit, RetryEnqueues
<1>2. PICK t : BeginCall(c, t)
  BY DEF CallerStep, Submit, RetryEnqueues
<1>3. /\ callStep'[c] # "push"
      /\ \A r \in Proc \ {c} : callStep'[r] = callStep[r] /\ callTask'[r] = callTask[r]
  BY <1>2 DEF BeginCall, TypeOK, CallsOK, Proc
<1>4. PushingTo(k)' = PushingTo(k)
  BY <1>1, <1>3 DEF PushingTo
<1>5. UNCHANGED <<QueuedAt(k), WorkedBy(k)>>
  BY <1>1 DEF QueuedAt, WorkedBy, workerVars
<1>6. QED
  BY <1>1, <1>4, <1>5, StayHeld DEF PlacesStay

\* Timers, signals, and the cancellation of what runs touch no list, no call
\* and no worker's entry.
LEMMA SignalsHeld ==
    ASSUME NEW k, Once(k), Exact(k), RetryExpires \/ CancelActive \/ SignalStep
    PROVE  Once(k)' /\ Exact(k)'
<1>1. UNCHANGED <<queue, queued, wpc, wtask, callVars>>
  BY DEF RetryExpires, CancelActive, SignalStep, RaiseSignal, LowerSignal, PauseBackground,
         workerVars
<1>2. PlacesStay(k)
  BY <1>1 DEF PlacesStay, QueuedAt, PushingTo, WorkedBy, callVars
<1>3. QED
  BY <1>2, StayHeld

\* A restart empties every place and the dedupe set with them.
LEMMA RestartHeld ==
    ASSUME NEW k \in MediaKeys, Restart
    PROVE  Once(k)' /\ Exact(k)'
<1>1. queue'[k[1]] = <<>> /\ queued' = {}
  BY MediaKeyFacts DEF Restart
<1>2. QueuedAt(k)' = {} /\ PushingTo(k)' = {} /\ WorkedBy(k)' = {}
  BY <1>1 DEF Restart, QueuedAt, PushingTo, WorkedBy, Working
<1>3. QED
  BY <1>1, <1>2 DEF Once, Exact, Held, AtMostOne

-----------------------------------------------------------------------------
(* The theorems *)

LEMMA InitHeld == Init => HeldInv
<1>1. SUFFICES ASSUME Init PROVE HeldInv
  OBVIOUS
<1>2. ASSUME NEW k \in MediaKeys PROVE Once(k) /\ Exact(k)
  <2>1. queue[k[1]] = <<>> /\ queued = {}
    BY <1>1, MediaKeyFacts DEF Init
  <2>2. QueuedAt(k) = {} /\ PushingTo(k) = {} /\ WorkedBy(k) = {}
    BY <1>1, <2>1 DEF Init, QueuedAt, PushingTo, WorkedBy, Working
  <2>3. QED  BY <2>1, <2>2 DEF Once, Exact, Held, AtMostOne
<1>3. NoneClears
  BY <1>1 DEF Init, NoneClears
<1>4. QED
  BY <1>1, <1>2, <1>3, InitTypeOK DEF HeldInv, Init, BusyMakesNoCall

\* Without user stops no clear is ever under way: the debug pause only cancels.
LEMMA NoneClearsStep ==
    ASSUME NoStops, TypeOK, NoneClears, Next
    PROVE  NoneClears'
<1>1. spent.stops \in Nat /\ MaxStops = 0
  BY DEF TypeOK, ControlOK, NoStops
<1>2. ~(\E g \in StopGroups : BeginStop(g)) /\ ~ClearQueues
  BY <1>1 DEF BeginStop, ClearQueues, NoneClears
<1>3. ASSUME CancelActive \/ SignalStep \/ Restart PROVE NoneClears'
  BY <1>3 DEF CancelActive, SignalStep, RaiseSignal, LowerSignal, PauseBackground, Restart, NoneClears
<1>4. ASSUME NEW p \in Proc, EnqueueStep(p) PROVE stop' = stop
  BY <1>4 DEF EnqueueStep, Claim, Push, PushFails, Promote
<1>5. ASSUME NEW w \in Worker, WorkerStep(w) PROVE stop' = stop
  BY <1>5 DEF WorkerStep, BeginPoll, PollTimesOut, Pop, EnterTask, Acquire, AcquireCancelled,
     Preempt, Finish, ReleaseKey, Requeue
<1>6. ASSUME NEW c \in Caller, CallerStep(c) PROVE stop' = stop
  BY <1>6 DEF CallerStep, Submit, RetryEnqueues
<1>7. RetryExpires => stop' = stop
  BY DEF RetryExpires
<1>8. QED
  BY <1>2, <1>3, <1>4, <1>5, <1>6, <1>7 DEF Next, StopStep, NoneClears

\* Only an idle worker enqueues, and it polls again when the call has ended.
LEMMA BusyMakesNoCallStep ==
    ASSUME TypeOK, BusyMakesNoCall, Next
    PROVE  BusyMakesNoCall'
<1>1. /\ wpc \in [Worker -> {"idle", "polling", "popped", "acquiring", "running", "finished", "ended"}]
      /\ callStep \in [Proc -> {"none", "claim", "push", "promote"}]
      /\ Worker \cap Caller = {}
  BY ConstantsAssumption DEF ConstantsAssumption, TypeOK, WorkersOK, CallsOK
<1>2. ASSUME NEW p \in Proc, EnqueueStep(p) PROVE BusyMakesNoCall'
  <2>1. /\ callStep[p] # "none" /\ wpc' = wpc
        /\ \A r \in Proc \ {p} : callStep'[r] = callStep[r]
    BY <1>1, <1>2 DEF EnqueueStep, Claim, Push, PushFails, Promote, EndCall, workerVars
  <2>2. QED  BY <1>1, <2>1 DEF BusyMakesNoCall, Proc
<1>3. ASSUME NEW w \in Worker, WorkerStep(w) PROVE BusyMakesNoCall'
  <2>1. \A v \in Worker \ {w} : wpc'[v] = wpc[v] /\ callStep'[v] = callStep[v]
    BY <1>1, <1>3 DEF WorkerStep, BeginPoll, PollTimesOut, Pop, EnterTask, Acquire, AcquireCancelled,
       Preempt, Finish, ReleaseKey, Requeue, BeginCall, callVars, Proc
  <2>2. wpc'[w] # "idle" => callStep'[w] = callStep[w] /\ callStep[w] = "none"
    <3>1. BeginPoll(w) \/ PollTimesOut(w) \/ Pop(w) \/ EnterTask(w) =>
             callStep' = callStep /\ callStep[w] = "none"
      BY DEF BeginPoll, PollTimesOut, Pop, EnterTask, callVars, BusyMakesNoCall
    <3>2. Acquire(w) \/ AcquireCancelled(w) \/ Preempt(w) \/ Finish(w) \/ ReleaseKey(w) =>
             callStep' = callStep /\ callStep[w] = "none"
      BY DEF Acquire, AcquireCancelled, Preempt, Cancellable, Finish, ReleaseKey, callVars,
             BusyMakesNoCall
    <3>3. Requeue(w) => wpc'[w] = "idle"
      BY <1>1 DEF Requeue
    <3>4. QED  BY <1>3, <3>1, <3>2, <3>3 DEF WorkerStep
  <2>3. QED  BY <2>1, <2>2 DEF BusyMakesNoCall
<1>4. ASSUME NEW c \in Caller, CallerStep(c) PROVE BusyMakesNoCall'
  <2>1. wpc' = wpc /\ \A w \in Worker : callStep'[w] = callStep[w]
    BY <1>1, <1>4 DEF CallerStep, Submit, RetryEnqueues, BeginCall, workerVars, Proc
  <2>2. QED  BY <2>1 DEF BusyMakesNoCall
<1>5. ASSUME RetryExpires \/ StopStep \/ SignalStep PROVE BusyMakesNoCall'
  <2>1. wpc' = wpc /\ callStep' = callStep
    BY <1>5 DEF RetryExpires, StopStep, BeginStop, ClearQueues, CancelActive, SignalStep,
       RaiseSignal, LowerSignal, PauseBackground, workerVars, callVars
  <2>2. QED  BY <2>1 DEF BusyMakesNoCall
<1>6. ASSUME Restart PROVE BusyMakesNoCall'
  BY <1>6 DEF Restart, BusyMakesNoCall
<1>7. QED
  BY <1>2, <1>3, <1>4, <1>5, <1>6 DEF Next

LEMMA StepHeld ==
    ASSUME NoStops, HeldInv, [Next]_vars
    PROVE  HeldInv'
<1>1. TypeOK /\ NoneClears /\ BusyMakesNoCall /\ TypeOK'
  BY StepTypeOK DEF HeldInv
<1>2. CASE UNCHANGED vars
  <2>1. ASSUME NEW k \in MediaKeys PROVE Once(k)' /\ Exact(k)'
    <3>1. PlacesStay(k)
      BY <1>2 DEF vars, workerVars, callVars, PlacesStay, QueuedAt, PushingTo, WorkedBy
    <3>2. QED  BY <3>1, StayHeld DEF HeldInv
  <2>2. NoneClears' /\ BusyMakesNoCall'
    BY <1>1, <1>2 DEF vars, workerVars, callVars, NoneClears, BusyMakesNoCall
  <2>3. QED  BY <1>1, <2>1, <2>2 DEF HeldInv, MediaKeys
<1>3. CASE Next
  <2>1. NoneClears' /\ BusyMakesNoCall'
    BY <1>1, <1>3, NoneClearsStep, BusyMakesNoCallStep
  <2>2. ASSUME NEW k \in MediaKeys PROVE Once(k)' /\ Exact(k)'
    <3>1. Once(k) /\ Exact(k)
      BY <2>2 DEF HeldInv
    <3>2. ASSUME NEW p \in Proc, EnqueueStep(p) PROVE Once(k)' /\ Exact(k)'
      BY <1>1, <3>1, <3>2, ClaimHeld, PushHeld, PushFailsHeld, PromoteHeld DEF EnqueueStep
    <3>3. ASSUME NEW w \in Worker, WorkerStep(w) PROVE Once(k)' /\ Exact(k)'
      BY <1>1, <3>1, <3>3, PopHeld, ReleaseHeld, OtherWorkerStepsHeld DEF WorkerStep
    <3>4. ASSUME NEW c \in Caller, CallerStep(c) PROVE Once(k)' /\ Exact(k)'
      BY <1>1, <3>1, <3>4, BegunCallHeld
    <3>5. RetryExpires \/ SignalStep => Once(k)' /\ Exact(k)'
      BY <3>1, SignalsHeld
    <3>6. StopStep => Once(k)' /\ Exact(k)'
      <4>1. spent.stops \in Nat /\ MaxStops = 0
        BY <1>1 DEF TypeOK, ControlOK, NoStops
      <4>2. ~(\E g \in StopGroups : BeginStop(g)) /\ ~ClearQueues
        BY <1>1, <4>1 DEF BeginStop, ClearQueues, NoneClears
      <4>3. QED  BY <3>1, <4>2, SignalsHeld DEF StopStep
    <3>7. Restart => Once(k)' /\ Exact(k)'
      BY RestartHeld
    <3>8. QED  BY <1>3, <3>2, <3>3, <3>4, <3>5, <3>6, <3>7 DEF Next
  <2>3. QED  BY <1>1, <2>1, <2>2 DEF HeldInv, MediaKeys
<1>4. QED
  BY <1>2, <1>3

\* Without user stops a media item is never in two places, whatever workers,
\* callers, retries, preemptions and restarts do to it: no two workers run it,
\* no list holds it twice, and a preempted item that is enqueued again beside a
\* new request does not double (enqueue and runTask of jobs.go).
THEOREM HeldInOnePlace == ASSUME NoStops PROVE Spec => []HeldOnce
<1>1. HeldInv /\ [Next]_vars => HeldInv'
  BY StepHeld
<1>2. HeldInv => HeldOnce
  BY DEF HeldInv, HeldOnce, Once
<1>3. QED
  BY InitHeld, <1>1, <1>2, PTL DEF Spec

\* In a manager of media work without user stops the dedupe set is exact: work
\* in flight has its key, so a second request is refused or promotes it, and a
\* key belongs to work in flight, so it refuses no request for nothing.
THEOREM DedupeSetIsExact ==
    ASSUME NoStops, TaskType \subseteq MediaType
    PROVE  Spec => []ClaimedIffHeld
<1>1. HeldInv /\ [Next]_vars => HeldInv'
  BY StepHeld
<1>2. HeldInv => ClaimedIffHeld
  <2>1. SUFFICES ASSUME HeldInv PROVE ClaimedIffHeld
    OBVIOUS
  <2>2. \A k \in queued : k \in MediaKeys
    BY <2>1 DEF HeldInv, TypeOK, ControlOK, MediaKeys
  <2>3. QED  BY <2>1, <2>2 DEF HeldInv, Exact, ClaimedIffHeld
<1>3. QED
  BY InitHeld, <1>1, <1>2, PTL DEF Spec

-----------------------------------------------------------------------------
(* The promise: media work as WorkPromise tells it *)

\* No timer holds a retry that a stop has made void, for nobody stops.
DelayedFresh == \A t \in delayed : ~Stale(t)
PromiseInv == HeldInv /\ DelayedFresh

Calling(k) == \E p \in Proc : callStep[p] = "claim" /\ Key(callTask[p]) = k
Timed(k) == \E t \in delayed : Key(t) = k
LetsGo(w, k) == wpc[w] = "ended" /\ Unfinished(w) /\ Key(wtask[w]) = k
LettingGo(k) == \E w \in Worker : LetsGo(w, k)

\* What the promise calls asked, one key at a time.
LEMMA AskedKeys ==
    /\ Asked = {k \in MediaKeys : Calling(k) \/ Timed(k) \/ LettingGo(k)}
    /\ Asked' = {k \in MediaKeys : Calling(k)' \/ Timed(k)' \/ LettingGo(k)'}
<1>1. ASSUME NEW k
      PROVE  /\ k \in Asked <=> k \in MediaKeys /\ (Calling(k) \/ Timed(k) \/ LettingGo(k))
             /\ k \in Asked' <=> k \in MediaKeys /\ (Calling(k)' \/ Timed(k)' \/ LettingGo(k)')
  BY DEF Asked, Calling, Timed, LettingGo, LetsGo, MediaKeys
<1>2. QED  BY <1>1

Pair == MediaKeys \X Worker
Does(e) == wpc[e[2]] \in Working /\ Key(wtask[e[2]]) = e[1]
CutsOff(e) == Does(e) /\ wpc[e[2]] = "finished" /\ Unfinished(e[2])

LEMMA MediaKeyOfTask ==
    ASSUME NEW t \in Task
    PROVE  Key(t) \in MediaKeys <=> t.type \in MediaType
  BY TaskFacts DEF Key, MediaKeys

\* Who does what, one pair of an item and a worker at a time.
PairsOK == Doing = {e \in Pair : Does(e)} /\ Short = {e \in Pair : CutsOff(e)}

LEMMA DoingPairs == TypeOK => PairsOK
<1> SUFFICES ASSUME TypeOK PROVE PairsOK
  OBVIOUS
<1>1. ASSUME NEW w \in Worker, wpc[w] \in Working
      PROVE  Key(wtask[w]) \in MediaKeys <=> wtask[w].type \in MediaType
  <2>1. wtask[w] \in Task
    BY <1>1 DEF TypeOK, WorkersOK, Working
  <2>2. QED  BY <2>1, MediaKeyOfTask
<1>2. ASSUME NEW e
      PROVE  /\ e \in Doing <=> e \in Pair /\ Does(e)
             /\ e \in Short <=> e \in Pair /\ CutsOff(e)
  <2>1. e \in Doing <=> \E w \in Worker : /\ wpc[w] \in Working /\ wtask[w].type \in MediaType
                                         /\ e = <<Key(wtask[w]), w>>
    BY DEF Doing, MediaWorking
  <2>2. e \in Short <=> \E w \in Worker : /\ wpc[w] \in Working /\ wtask[w].type \in MediaType
                                         /\ wpc[w] = "finished" /\ Unfinished(w)
                                         /\ e = <<Key(wtask[w]), w>>
    BY DEF Short, CutOff, MediaWorking
  <2>3. e \in Pair => \E k \in MediaKeys, w \in Worker : e = <<k, w>>
    BY DEF Pair
  <2>4. \A k, w : e = <<k, w>> => e[1] = k /\ e[2] = w
    OBVIOUS
  <2>5. \A k \in MediaKeys, w \in Worker : <<k, w>> \in Pair
    BY DEF Pair
  <2>6. QED  BY <1>1, <2>1, <2>2, <2>3, <2>4, <2>5 DEF Does, CutsOff
<1>3. QED  BY <1>2 DEF PairsOK

LEMMA DoingPairsNext == TypeOK' => PairsOK'
  BY DoingPairs, PTL

AskedNow(k) == Calling(k) \/ Timed(k) \/ LettingGo(k)

\* A step that leaves alone who does and who asks is a stutter of the promise.
LEMMA SamePromise ==
    ASSUME TypeOK, TypeOK', (MediaKeys \cap queued)' = MediaKeys \cap queued,
           \A k \in MediaKeys : AskedNow(k)' = AskedNow(k),
           \A e \in Pair : Does(e)' = Does(e) /\ CutsOff(e)' = CutsOff(e)
    PROVE  UNCHANGED Work!vars
<1>1. Asked' = Asked
  BY AskedKeys DEF AskedNow
<1>2. Doing' = Doing /\ Short' = Short
  BY DoingPairs, DoingPairsNext DEF PairsOK, Pair, MediaKeys
<1>3. QED  BY <1>1, <1>2 DEF Work!vars

\* A worker that does not move does the same, cuts off the same, lets go the same.
LEMMA WorkerStays ==
    ASSUME NEW v \in Worker, wpc'[v] = wpc[v], wtask'[v] = wtask[v], result'[v] = result[v], aiGen' = aiGen
    PROVE  /\ \A e : e[2] = v => Does(e)' = Does(e) /\ CutsOff(e)' = CutsOff(e)
           /\ \A k : LetsGo(v, k)' = LetsGo(v, k)
<1>1. Unfinished(v)' = Unfinished(v)
  BY DEF Unfinished, RetryDue
<1>2. QED  BY <1>1 DEF Does, CutsOff, LetsGo, Working

LEMMA WorkersStay ==
    ASSUME UNCHANGED <<wpc, wtask, result, aiGen>>
    PROVE  /\ \A e \in Pair : Does(e)' = Does(e) /\ CutsOff(e)' = CutsOff(e)
           /\ \A k : LettingGo(k)' = LettingGo(k)
<1>1. \A e \in Pair : e[2] \in Worker
  BY DEF Pair
<1>2. QED  BY <1>1, WorkerStays DEF LettingGo

\* A call that is not about to claim, before and after the step, asks for nothing.
LEMMA CallsStay ==
    ASSUME NEW p \in Proc, callStep[p] # "claim", callStep'[p] # "claim",
           \A r \in Proc \ {p} : callStep'[r] = callStep[r] /\ callTask'[r] = callTask[r],
           NEW k
    PROVE  Calling(k)' = Calling(k)
  BY DEF Calling

LEMMA EndedCall ==
    ASSUME TypeOK, NEW p \in Proc, EndCall(p)
    PROVE  /\ callStep'[p] = "none"
           /\ \A r \in Proc \ {p} : callStep'[r] = callStep[r] /\ callTask'[r] = callTask[r]
  BY DEF EndCall, TypeOK, CallsOK

LEMMA BegunCall ==
    ASSUME TypeOK, NEW p \in Proc, NEW t, BeginCall(p, t)
    PROVE  /\ callStep'[p] = "claim" /\ callTask'[p] = t
           /\ \A r \in Proc \ {p} : callStep'[r] = callStep[r] /\ callTask'[r] = callTask[r]
  BY DEF BeginCall, TypeOK, CallsOK

\* What one process and the timers do when a step starts a call of p for t.
LEMMA BegunCalling ==
    ASSUME TypeOK, NEW p \in Proc, NEW t, BeginCall(p, t), callStep[p] = "none", NEW k
    PROVE  Calling(k)' <=> Calling(k) \/ Key(t) = k
<1>1. Calling(k)' <=> \E r \in Proc : callStep'[r] = "claim" /\ Key(callTask'[r]) = k
  BY DEF Calling, Key
<1>2. QED  BY <1>1, BegunCall DEF Calling

\* Claiming takes the item, or finds it taken.
LEMMA ClaimPromise ==
    ASSUME PromiseInv, TypeOK', NEW p \in Proc, Claim(p)
    PROVE  [Work!Next]_(Work!vars)
<1> DEFINE t == callTask[p]
           k == Key(t)
<1>1. TypeOK /\ t \in Task /\ callStep[p] = "claim"
  BY DEF PromiseInv, HeldInv, TypeOK, CallsOK, Claim
<1>2. UNCHANGED <<queue, wpc, wtask, result, cause, delayed, aiGen>>
  BY DEF Claim, workerVars
<1>3. /\ callStep'[p] # "claim"
      /\ \A r \in Proc \ {p} : callStep'[r] = callStep[r] /\ callTask'[r] = callTask[r]
  BY <1>1, EndedCall DEF Claim, TypeOK, CallsOK
<1>4. \A j : Timed(j)' = Timed(j)
  BY <1>2 DEF Timed
<1>5. ASSUME NEW j PROVE /\ Calling(j)' => Calling(j)
                         /\ j # k /\ Calling(j) => Calling(j)'
                         /\ Calling(k)
  BY <1>1, <1>3 DEF Calling
<1> HIDE DEF k
<1>6. Asked' \in {Asked, Asked \ {k}} /\ (k \in MediaKeys => k \in Asked)
  <2>1. \A j : AskedNow(j)' => AskedNow(j)
    BY <1>2, <1>4, <1>5, WorkersStay DEF AskedNow
  <2>2. \A j : j # k /\ AskedNow(j) => AskedNow(j)'
    BY <1>2, <1>4, <1>5, WorkersStay DEF AskedNow
  <2>3. Asked' \subseteq Asked /\ \A j \in Asked : j # k => j \in Asked'
    BY <2>1, <2>2, AskedKeys DEF AskedNow
  <2>4. QED  BY <1>5, <2>3, AskedKeys
<1>7. Doing' = Doing /\ Short' = Short
  BY <1>1, <1>2, WorkersStay, DoingPairs, DoingPairsNext DEF PairsOK, Pair, MediaKeys
<1>8. k \in MediaKeys <=> t.type \in MediaType
  BY <1>1, MediaKeyOfTask DEF k
<1>9. CASE k \notin MediaKeys
  <2>1. (MediaKeys \cap queued)' = MediaKeys \cap queued
    BY <1>9 DEF Claim, MediaKeys, k
  <2>2. Asked' = Asked
    BY <1>6, <1>9, AskedKeys
  <2>3. QED  BY <1>7, <2>1, <2>2 DEF Work!vars
<1>10. CASE k \in MediaKeys /\ k \in queued
  <2>1. queued' = queued
    BY <1>8, <1>10 DEF Claim, k, Keyed
  <2>2. Work!Join(k)
    BY <1>6, <1>7, <1>10, <2>1 DEF Work!Join, Work!Asks, MediaKeys
  <2>3. QED  BY <1>10, <2>2 DEF Work!Next
<1>11. CASE k \in MediaKeys /\ k \notin queued
  <2>1. queued' = queued \cup {k}
    BY <1>8, <1>11 DEF Claim, k, Keyed
  <2>2. (MediaKeys \cap queued)' = (MediaKeys \cap queued) \cup {k}
    BY <1>11, <2>1 DEF MediaKeys
  <2>3. Work!Take(k)
    BY <1>6, <1>7, <1>11, <2>2 DEF Work!Take, Work!Asks
  <2>4. QED  BY <1>11, <2>3 DEF Work!Next
<1>12. QED  BY <1>9, <1>10, <1>11

\* The other steps of a call: a push or a promotion changes nothing, and a push
\* that fails drops an item nobody does.
LEMMA PushPromise ==
    ASSUME PromiseInv, TypeOK', NEW p \in Proc, Push(p) \/ PushFails(p) \/ Promote(p)
    PROVE  [Work!Next]_(Work!vars)
<1> DEFINE k == Key(callTask[p])
<1>1. TypeOK /\ callStep[p] # "claim" /\ EndCall(p) /\ UNCHANGED <<wpc, wtask, result, cause, delayed, aiGen>>
  BY DEF PromiseInv, HeldInv, Push, PushFails, Promote, workerVars
<1>2. \A j : AskedNow(j)' = AskedNow(j)
  <2>1. \A j : Calling(j)' = Calling(j)
    BY <1>1, EndedCall, CallsStay
  <2>2. \A j : Timed(j)' = Timed(j)
    BY <1>1 DEF Timed
  <2>3. QED  BY <1>1, <2>1, <2>2, WorkersStay DEF AskedNow
<1>3. ASSUME (MediaKeys \cap queued)' = MediaKeys \cap queued PROVE UNCHANGED Work!vars
  BY <1>1, <1>2, <1>3, WorkersStay, SamePromise
<1>4. CASE Push(p) \/ Promote(p)
  BY <1>3, <1>4 DEF Push, Promote, MediaKeys
<1>5. CASE PushFails(p) /\ k \notin MediaKeys
  BY <1>3, <1>5 DEF PushFails, MediaKeys
<1>6. CASE PushFails(p) /\ k \in MediaKeys
  <2>1. p \in PushingTo(k) /\ Once(k) /\ Exact(k)
    BY <1>6 DEF PushFails, PushingTo, PromiseInv, HeldInv
  <2>2. WorkedBy(k) = {} /\ k \in queued
    BY <2>1 DEF Once, Exact, Held
  <2> HIDE DEF k
  <2>3. \A d \in Worker : <<k, d>> \notin Doing
    BY <1>1, <2>2, DoingPairs DEF PairsOK, Does, WorkedBy
  <2>4. (MediaKeys \cap queued)' = (MediaKeys \cap queued) \ {k}
    BY <1>6 DEF PushFails, MediaKeys, k
  <2>5. Asked' = Asked /\ Doing' = Doing /\ Short' = Short
    BY <1>1, <1>2, AskedKeys, WorkersStay, DoingPairs, DoingPairsNext DEF AskedNow, PairsOK, Pair, MediaKeys
  <2>6. Work!Drop(k)
    BY <1>6, <2>2, <2>3, <2>4, <2>5 DEF Work!Drop, Work!Resting
  <2>7. QED  BY <1>6, <2>6 DEF Work!Next
<1>7. QED  BY <1>4, <1>5, <1>6

OthersStay(w) ==
    /\ \A v \in Worker \ {w} : wpc'[v] = wpc[v] /\ wtask'[v] = wtask[v] /\ result'[v] = result[v]
    /\ aiGen' = aiGen

\* A step of one worker that calls nobody and lets nothing go asks for nothing.
LEMMA WorkerAsksNothing ==
    ASSUME NEW w \in Worker, OthersStay(w), UNCHANGED <<callStep, callTask, delayed>>,
           wpc[w] # "ended", wpc'[w] # "ended"
    PROVE  Asked' = Asked
<1>1. \A k : Calling(k)' = Calling(k) /\ Timed(k)' = Timed(k)
  BY DEF Calling, Timed
<1>2. \A k : LetsGo(w, k)' = LetsGo(w, k)
  BY DEF LetsGo
<1>3. \A k : \A v \in Worker \ {w} : LetsGo(v, k)' = LetsGo(v, k)
  BY WorkerStays DEF OthersStay
<1>4. \A k : LettingGo(k)' = LettingGo(k)
  BY <1>2, <1>3 DEF LettingGo
<1>5. QED  BY <1>1, <1>4, AskedKeys

\* What the other workers do and cut off stays.
LEMMA OtherPairsStay ==
    ASSUME TypeOK, TypeOK', NEW w \in Worker, OthersStay(w), NEW e \in Pair, e[2] # w
    PROVE  (e \in Doing' <=> e \in Doing) /\ (e \in Short' <=> e \in Short)
<1>1. Does(e)' = Does(e) /\ CutsOff(e)' = CutsOff(e)
  <2>1. e[2] \in Worker \ {w}
    BY DEF Pair
  <2>2. QED  BY <2>1, WorkerStays DEF OthersStay
<1>2. QED  BY <1>1, DoingPairs, DoingPairsNext DEF PairsOK

LEMMA PairsInPair == TypeOK => Doing \subseteq Pair /\ Short \subseteq Pair
  BY DoingPairs DEF PairsOK

LEMMA PairsInPairNext == TypeOK' => Doing' \subseteq Pair /\ Short' \subseteq Pair
  BY DoingPairsNext DEF PairsOK

\* A pair is an item and a worker.
LEMMA PairParts ==
    ASSUME NEW e \in Pair
    PROVE  e = <<e[1], e[2]>> /\ e[1] \in MediaKeys /\ e[2] \in Worker
  BY DEF Pair

LEMMA PairOf ==
    ASSUME NEW k \in MediaKeys, NEW w \in Worker
    PROVE  <<k, w>> \in Pair /\ <<k, w>>[1] = k /\ <<k, w>>[2] = w
  BY DEF Pair

\* A worker that waits, starts or is cancelled goes on with what it does.
LEMMA QuietWorker ==
    ASSUME TypeOK, TypeOK', NEW w \in Worker, OthersStay(w),
           UNCHANGED <<queued, callStep, callTask, delayed>>,
           wpc[w] # "ended", wpc'[w] # "ended",
           wpc'[w] \in Working <=> wpc[w] \in Working,
           wpc'[w] \in Working => wtask'[w] = wtask[w],
           (wpc'[w] = "finished" /\ Unfinished(w)') <=> (wpc[w] = "finished" /\ Unfinished(w))
    PROVE  UNCHANGED Work!vars
<1>1. Asked' = Asked
  BY WorkerAsksNothing
<1>2. ASSUME NEW e \in Pair PROVE (e \in Doing' <=> e \in Doing) /\ (e \in Short' <=> e \in Short)
  <2>1. CASE e[2] = w
    <3>1. Does(e)' = Does(e) /\ CutsOff(e)' = CutsOff(e)
      BY <2>1 DEF Does, CutsOff, Working
    <3>2. QED  BY <3>1, DoingPairs, DoingPairsNext DEF PairsOK
  <2>2. QED  BY <2>1, OtherPairsStay
<1>3. Doing' = Doing /\ Short' = Short
  BY <1>2, PairsInPair, PairsInPairNext
<1>4. QED  BY <1>1, <1>3 DEF Work!vars, MediaKeys

\* An attempt that ends was cut short, or is done for good.
LEMMA FinishedPromise ==
    ASSUME TypeOK, TypeOK', NEW w \in Worker, OthersStay(w),
           UNCHANGED <<queued, callStep, callTask, delayed, wtask>>,
           wpc[w] \in {"popped", "acquiring", "running"}, wpc'[w] = "finished"
    PROVE  [Work!Next]_(Work!vars)
<1> DEFINE k == Key(wtask[w])
<1>1. wtask[w] \in Task
  BY DEF TypeOK, WorkersOK
<1>2. CASE ~Unfinished(w)'
  <2>1. UNCHANGED Work!vars
    BY <1>2, QuietWorker DEF Working
  <2>2. QED  BY <2>1
<1> HIDE DEF k
<1>3. Asked' = Asked
  BY WorkerAsksNothing
<1>4. ASSUME NEW e \in Pair, e[2] = w
      PROVE  /\ e \in Doing' <=> e \in Doing
             /\ e \in Doing <=> e[1] = k
             /\ e \in Short' <=> e[1] = k /\ Unfinished(w)'
             /\ e \notin Short
  <2>1. /\ Does(e)' = Does(e) /\ Does(e) = (e[1] = k)
        /\ CutsOff(e)' = (e[1] = k /\ Unfinished(w)') /\ ~CutsOff(e)
    BY <1>4 DEF Does, CutsOff, Working, k
  <2>2. QED  BY <2>1, DoingPairs, DoingPairsNext DEF PairsOK
<1>5. Doing' = Doing
  BY <1>4, OtherPairsStay, PairsInPair, PairsInPairNext
<1>6. CASE Unfinished(w)' /\ k \in MediaKeys
  <2>1. ASSUME NEW e \in Pair PROVE e \in Short' <=> e \in Short \/ e = <<k, w>>
    BY <1>4, <1>6, OtherPairsStay, PairParts, PairOf
  <2>2. Short' = Short \cup {<<k, w>>}
    BY <1>6, <2>1, PairsInPair, PairsInPairNext, PairOf
  <2>3. <<k, w>> \in Doing
    BY <1>4, <1>6, PairOf
  <2>4. Work!CutShort(k, w)
    BY <1>3, <1>5, <2>2, <2>3 DEF Work!CutShort, MediaKeys
  <2>5. QED  BY <1>6, <2>4 DEF Work!Next
<1>7. CASE k \notin MediaKeys
  <2>1. ASSUME NEW e \in Pair PROVE e \in Short' <=> e \in Short
    BY <1>4, <1>7, OtherPairsStay, PairParts
  <2>2. Short' = Short
    BY <2>1, PairsInPair, PairsInPairNext
  <2>3. QED  BY <1>3, <1>5, <2>2 DEF Work!vars, MediaKeys
<1>8. QED  BY <1>2, <1>6, <1>7

\* A worker begins an item that was taken and that nobody does.
LEMMA PopPromise ==
    ASSUME PromiseInv, TypeOK', NEW w \in Worker, Pop(w)
    PROVE  [Work!Next]_(Work!vars)
<1>1. TypeOK /\ UNCHANGED <<queued, callStep, callTask, delayed, aiGen, result>>
  BY DEF PromiseInv, HeldInv, Pop, callVars
<1>2. PICK n \in DOMAIN Serves[w] :
         /\ queue[Serves[w][n]] # <<>>
         /\ wtask' = [wtask EXCEPT ![w] = Head(queue[Serves[w][n]])]
  BY DEF Pop
<1> DEFINE type == Serves[w][n]
           q == queue[type]
           t == Head(q)
           k == Key(t)
<1>3. type \in TaskType
  BY ConstantsAssumption, <1>2 DEF ConstantsAssumption
<1>4. q \in Seq(Task) /\ q # <<>>
  BY <1>1, <1>2, <1>3 DEF TypeOK, ListsOK
<1>5. 1 \in DOMAIN q /\ t = q[1] /\ t \in Task
  <2> HIDE DEF q
  <2>1. QED  BY <1>4
<1>6. t.type = type
  BY <1>1, <1>3, <1>5 DEF TypeOK, ListsOK
<1>7. /\ wpc[w] = "polling" /\ wpc'[w] = "popped" /\ wtask'[w] = t
      /\ OthersStay(w)
  BY <1>1, <1>2 DEF Pop, TypeOK, WorkersOK, OthersStay
<1>8. Asked' = Asked
  BY <1>1, <1>7, WorkerAsksNothing
<1>9. k \in MediaKeys => 1 \in QueuedAt(k)
  BY <1>5, <1>6 DEF QueuedAt, Key
<1> HIDE DEF t, k
<1>10. ASSUME NEW e \in Pair, e[2] = w
       PROVE  e \notin Doing /\ e \notin Short /\ e \notin Short' /\ (e \in Doing' <=> e[1] = k)
  <2>1. ~Does(e) /\ ~CutsOff(e) /\ ~CutsOff(e)' /\ Does(e)' = (e[1] = k)
    BY <1>7, <1>10 DEF Does, CutsOff, Working, k
  <2>2. QED  BY <1>1, <2>1, DoingPairs, DoingPairsNext DEF PairsOK
<1>11. Short' = Short
  BY <1>1, <1>7, <1>10, OtherPairsStay, PairsInPair, PairsInPairNext
<1>12. CASE k \notin MediaKeys
  <2>1. ASSUME NEW e \in Pair PROVE e \in Doing' <=> e \in Doing
    BY <1>1, <1>7, <1>10, <1>12, OtherPairsStay, PairParts
  <2>2. Doing' = Doing
    BY <1>1, <2>1, PairsInPair, PairsInPairNext
  <2>3. QED  BY <1>1, <1>8, <1>11, <2>2 DEF Work!vars, MediaKeys
<1>13. CASE k \in MediaKeys
  <2>1. ASSUME NEW e \in Pair PROVE e \in Doing' <=> e \in Doing \/ e = <<k, w>>
    BY <1>1, <1>7, <1>10, <1>13, OtherPairsStay, PairParts, PairOf
  <2>2. Doing' = Doing \cup {<<k, w>>}
    BY <1>1, <1>13, <2>1, PairsInPair, PairsInPairNext, PairOf
  <2>3. WorkedBy(k) = {} /\ k \in queued
    <3>1. QueuedAt(k) # {} /\ Once(k) /\ Exact(k)
      BY <1>9, <1>13 DEF PromiseInv, HeldInv
    <3>2. QED  BY <3>1 DEF Once, Exact, Held
  <2>4. \A d \in Worker : <<k, d>> \notin Doing
    BY <1>1, <2>3, DoingPairs DEF PairsOK, Does, WorkedBy
  <2>5. \A other \in MediaKeys : <<other, w>> \notin Doing
    BY <1>10, PairOf
  <2>6. Work!Begin(k, w)
    BY <1>1, <1>8, <1>11, <1>13, <2>2, <2>3, <2>4, <2>5 DEF Work!Begin, Work!Resting, MediaKeys
  <2>7. QED  BY <1>13, <2>6 DEF Work!Next
<1>14. QED  BY <1>12, <1>13

\* A worker lets the item go; what was cut off is asked for from then on.
LEMMA ReleasePromise ==
    ASSUME PromiseInv, TypeOK', NEW w \in Worker, ReleaseKey(w)
    PROVE  [Work!Next]_(Work!vars)
<1> DEFINE k == Key(wtask[w])
<1>1. TypeOK /\ UNCHANGED <<callStep, callTask, delayed, aiGen, result, wtask>>
      /\ queued' = queued \ {k} /\ wpc[w] = "finished"
  BY DEF PromiseInv, HeldInv, ReleaseKey, callVars
<1>2. wpc'[w] = "ended" /\ OthersStay(w)
  BY <1>1 DEF ReleaseKey, TypeOK, WorkersOK, OthersStay
<1>3. Unfinished(w)' = Unfinished(w)
  BY <1>1 DEF Unfinished, RetryDue
<1> HIDE DEF k
<1>4. ASSUME NEW e \in Pair, e[2] = w
      PROVE  /\ e \notin Doing' /\ e \notin Short'
             /\ e \in Doing <=> e[1] = k
             /\ e \in Short <=> e[1] = k /\ Unfinished(w)
  <2>1. ~Does(e)' /\ ~CutsOff(e)' /\ Does(e) = (e[1] = k) /\ CutsOff(e) = (e[1] = k /\ Unfinished(w))
    BY <1>1, <1>2, <1>4 DEF Does, CutsOff, Working, k
  <2>2. QED  BY <1>1, <2>1, DoingPairs, DoingPairsNext DEF PairsOK
<1>5. ASSUME NEW j \in MediaKeys
      PROVE  AskedNow(j)' <=> AskedNow(j) \/ (j = k /\ Unfinished(w))
  <2>1. Calling(j)' = Calling(j) /\ Timed(j)' = Timed(j)
    BY <1>1 DEF Calling, Timed
  <2>2. \A v \in Worker \ {w} : LetsGo(v, j)' = LetsGo(v, j)
    BY <1>2, WorkerStays DEF OthersStay
  <2>3. ~LetsGo(w, j) /\ (LetsGo(w, j)' <=> j = k /\ Unfinished(w))
    BY <1>1, <1>2, <1>3 DEF LetsGo, k
  <2>4. QED  BY <2>1, <2>2, <2>3 DEF AskedNow, LettingGo
<1>6. CASE k \notin MediaKeys
  <2>1. ASSUME NEW e \in Pair PROVE (e \in Doing' <=> e \in Doing) /\ (e \in Short' <=> e \in Short)
    BY <1>1, <1>2, <1>4, <1>6, OtherPairsStay, PairParts
  <2>2. Doing' = Doing /\ Short' = Short
    BY <1>1, <2>1, PairsInPair, PairsInPairNext
  <2>3. Asked' = Asked
    BY <1>5, <1>6, AskedKeys DEF AskedNow
  <2>4. (MediaKeys \cap queued)' = MediaKeys \cap queued
    BY <1>1, <1>6 DEF MediaKeys
  <2>5. QED  BY <2>2, <2>3, <2>4 DEF Work!vars
<1>7. CASE k \in MediaKeys
  <2>1. ASSUME NEW e \in Pair
        PROVE  /\ e \in Doing' <=> e \in Doing /\ e # <<k, w>>
               /\ e \in Short' <=> e \in Short /\ e # <<k, w>>
    BY <1>1, <1>2, <1>4, <1>7, OtherPairsStay, PairParts, PairOf
  <2>2. Doing' = Doing \ {<<k, w>>} /\ Short' = Short \ {<<k, w>>}
    BY <1>1, <2>1, PairsInPair, PairsInPairNext
  <2>3. <<k, w>> \in Doing /\ (<<k, w>> \in Short <=> Unfinished(w))
    BY <1>4, <1>7, PairOf
  <2>4. Asked' = IF <<k, w>> \in Short THEN Asked \cup {k} ELSE Asked
    BY <1>5, <1>7, <2>3, AskedKeys DEF AskedNow
  <2>5. (MediaKeys \cap queued)' = (MediaKeys \cap queued) \ {k}
    BY <1>1 DEF MediaKeys
  <2>6. Work!End(k, w)
    BY <2>2, <2>3, <2>4, <2>5 DEF Work!End
  <2>7. QED  BY <1>7, <2>6 DEF Work!Next
<1>8. QED  BY <1>6, <1>7

\* The requeue hands what was cut off to a call or a timer: still asked for.
LEMMA RequeuePromise ==
    ASSUME PromiseInv, TypeOK', NEW w \in Worker, Requeue(w)
    PROVE  UNCHANGED Work!vars
<1> DEFINE t == wtask[w]
<1>1. TypeOK /\ UNCHANGED <<queued, aiGen>> /\ wpc[w] = "ended" /\ callStep[w] = "none" /\ w \in Proc
  BY DEF PromiseInv, HeldInv, BusyMakesNoCall, Requeue, Proc
<1>2. wpc'[w] = "idle" /\ OthersStay(w) /\ t \in Task
  BY <1>1 DEF Requeue, TypeOK, WorkersOK, OthersStay
<1>3. ASSUME NEW e \in Pair PROVE Does(e)' = Does(e) /\ CutsOff(e)' = CutsOff(e)
  <2>1. CASE e[2] = w
    BY <1>1, <1>2, <2>1 DEF Does, CutsOff, Working
  <2>2. CASE e[2] # w
    BY <1>2, <2>2, PairParts, WorkerStays DEF OthersStay
  <2>3. QED  BY <2>1, <2>2
<1>4. ASSUME NEW j PROVE AskedNow(j)' = AskedNow(j)
  <2>1. \A v \in Worker \ {w} : LetsGo(v, j)' = LetsGo(v, j)
    BY <1>2, WorkerStays DEF OthersStay
  <2>2. ~LetsGo(w, j)' /\ (LetsGo(w, j) <=> Unfinished(w) /\ Key(t) = j)
    BY <1>1, <1>2 DEF LetsGo
  <2>3. LettingGo(j) <=> LettingGo(j)' \/ (Unfinished(w) /\ Key(t) = j)
    BY <2>1, <2>2 DEF LettingGo
  <2>4. CASE result[w] \in {"preempted", "paused"} /\ BeginCall(w, t) /\ UNCHANGED delayed
    <3>1. (Calling(j)' <=> Calling(j) \/ Key(t) = j) /\ Timed(j)' = Timed(j) /\ Unfinished(w)
      BY <1>1, <2>4, BegunCalling DEF Timed, Unfinished
    <3>2. QED  BY <2>3, <3>1 DEF AskedNow
  <2>5. CASE RetryDue(t, result[w]) /\ delayed' = delayed \cup {NextAttempt(t)} /\ UNCHANGED callVars
    <3>1. Key(NextAttempt(t)) = Key(t)
      BY <1>2 DEF NextAttempt, Key, Task
    <3>2. Calling(j)' = Calling(j) /\ Unfinished(w)
      BY <2>5 DEF Calling, callVars, Unfinished
    <3>3. Timed(j)' <=> Timed(j) \/ Key(t) = j
      BY <2>5, <3>1 DEF Timed
    <3>4. QED  BY <2>3, <3>2, <3>3 DEF AskedNow
  <2>6. CASE ~Unfinished(w) /\ UNCHANGED <<delayed, callVars>>
    <3>1. Calling(j)' = Calling(j) /\ Timed(j)' = Timed(j)
      BY <2>6 DEF Calling, Timed, callVars
    <3>2. QED  BY <2>3, <2>6, <3>1 DEF AskedNow
  <2>7. QED  BY <2>4, <2>5, <2>6 DEF Requeue, Unfinished
<1>5. QED  BY <1>1, <1>3, <1>4, SamePromise DEF MediaKeys

\* The remaining steps of a worker.
LEMMA WorkerPromise ==
    ASSUME PromiseInv, TypeOK', NEW w \in Worker, WorkerStep(w)
    PROVE  [Work!Next]_(Work!vars)
<1>1. TypeOK
  BY DEF PromiseInv, HeldInv
<1>2. CASE BeginPoll(w) \/ PollTimesOut(w) \/ Acquire(w) \/ Preempt(w)
  <2>1. /\ OthersStay(w) /\ UNCHANGED <<queued, callStep, callTask, delayed, wtask, result>>
        /\ \/ wpc[w] \in {"idle", "polling"} /\ wpc'[w] \in {"idle", "polling"}
           \/ wpc[w] \in {"acquiring", "running"} /\ wpc'[w] \in {"acquiring", "running"}
    BY <1>1, <1>2 DEF BeginPoll, PollTimesOut, Acquire, Preempt, Cancellable, callVars, OthersStay,
       TypeOK, WorkersOK
  <2>2. UNCHANGED Work!vars
    BY <1>1, <2>1, QuietWorker DEF Working
  <2>3. QED  BY <2>2
<1>3. CASE AcquireCancelled(w) \/ Finish(w)
  <2>1. /\ OthersStay(w) /\ UNCHANGED <<queued, callStep, callTask, delayed, wtask>>
        /\ wpc[w] \in {"acquiring", "running"} /\ wpc'[w] = "finished"
    BY <1>1, <1>3 DEF AcquireCancelled, Finish, callVars, OthersStay, TypeOK, WorkersOK
  <2>2. QED  BY <1>1, <2>1, FinishedPromise
<1>4. CASE EnterTask(w)
  <2>1. /\ OthersStay(w) /\ UNCHANGED <<queued, callStep, callTask, delayed, wtask>>
        /\ wpc[w] = "popped" /\ wpc'[w] \in {"acquiring", "running", "finished"}
    BY <1>1, <1>4 DEF EnterTask, callVars, OthersStay, TypeOK, WorkersOK
  <2>2. CASE wpc'[w] = "finished"
    BY <1>1, <2>1, <2>2, FinishedPromise
  <2>3. CASE wpc'[w] # "finished"
    <3>1. UNCHANGED Work!vars
      BY <1>1, <2>1, <2>3, QuietWorker DEF Working
    <3>2. QED  BY <3>1
  <2>4. QED  BY <2>2, <2>3
<1>5. CASE Pop(w)
  BY <1>5, PopPromise
<1>6. CASE ReleaseKey(w)
  BY <1>6, ReleasePromise
<1>7. CASE Requeue(w)
  BY <1>7, RequeuePromise
<1>8. QED  BY <1>2, <1>3, <1>4, <1>5, <1>6, <1>7 DEF WorkerStep

\* A request of the program asks; a timer that fires hands its item to a call.
LEMMA CallerPromise ==
    ASSUME PromiseInv, TypeOK', NEW c \in Caller, CallerStep(c)
    PROVE  [Work!Next]_(Work!vars)
<1>1. TypeOK /\ c \in Proc /\ callStep[c] = "none" /\ UNCHANGED <<queued, wpc, wtask, result, aiGen>>
  BY DEF PromiseInv, HeldInv, CallerStep, Submit, RetryEnqueues, workerVars, Proc
<1>2. CASE Submit(c)
  <2>1. delayed' = delayed /\ \E u : BeginCall(c, u)
    BY <1>2 DEF Submit
  <2>2. PICK t : BeginCall(c, t)
    BY <2>1
  <2> DEFINE k == Key(t)
  <2> HIDE DEF k
  <2>3. ASSUME NEW j PROVE AskedNow(j)' <=> AskedNow(j) \/ j = k
    <3>1. Calling(j)' <=> Calling(j) \/ j = k
      BY <1>1, <2>2, BegunCalling DEF k
    <3>2. Timed(j)' = Timed(j) /\ LettingGo(j)' = LettingGo(j)
      BY <1>1, <2>1, WorkersStay DEF Timed
    <3>3. QED  BY <3>1, <3>2 DEF AskedNow
  <2>4. Doing' = Doing /\ Short' = Short /\ (MediaKeys \cap queued)' = MediaKeys \cap queued
    BY <1>1, WorkersStay, DoingPairs, DoingPairsNext DEF PairsOK, Pair, MediaKeys
  <2>5. CASE k \in MediaKeys
    <3>1. Asked' = Asked \cup {k}
      BY <2>3, <2>5, AskedKeys DEF AskedNow
    <3>2. Work!Ask(k)
      BY <2>4, <3>1 DEF Work!Ask
    <3>3. QED  BY <2>5, <3>2 DEF Work!Next
  <2>6. CASE k \notin MediaKeys
    <3>1. Asked' = Asked
      BY <2>3, <2>6, AskedKeys DEF AskedNow
    <3>2. QED  BY <2>4, <3>1 DEF Work!vars
  <2>7. QED  BY <2>5, <2>6
<1>3. CASE RetryEnqueues(c)
  <2>1. PICK t \in delayed : delayed' = delayed \ {t} /\ BeginCall(c, t)
    BY <1>3 DEF RetryEnqueues
  <2>2. ASSUME NEW j PROVE AskedNow(j)' = AskedNow(j)
    <3>1. Calling(j)' <=> Calling(j) \/ Key(t) = j
      BY <1>1, <2>1, BegunCalling
    <3>2. Timed(j) <=> Timed(j)' \/ Key(t) = j
      BY <2>1 DEF Timed
    <3>3. LettingGo(j)' = LettingGo(j)
      BY <1>1, WorkersStay
    <3>4. QED  BY <3>1, <3>2, <3>3 DEF AskedNow
  <2>3. UNCHANGED Work!vars
    BY <1>1, <2>2, WorkersStay, SamePromise DEF MediaKeys
  <2>4. QED  BY <2>3
<1>4. QED  BY <1>2, <1>3 DEF CallerStep

\* Signals and cancellations change no promise; the restart is the crash.
LEMMA OtherPromise ==
    ASSUME NoStops, PromiseInv, TypeOK', RetryExpires \/ StopStep \/ SignalStep \/ Restart
    PROVE  [Work!Next]_(Work!vars)
<1>1. TypeOK /\ NoneClears /\ DelayedFresh /\ spent.stops \in Nat /\ MaxStops = 0
  BY DEF PromiseInv, HeldInv, TypeOK, ControlOK, NoStops
<1>2. ~RetryExpires
  BY <1>1 DEF RetryExpires, DelayedFresh
<1>3. ~(\E g \in StopGroups : BeginStop(g)) /\ ~ClearQueues
  BY <1>1 DEF BeginStop, ClearQueues, NoneClears
<1>4. CASE CancelActive \/ SignalStep
  <2>1. UNCHANGED <<queued, wpc, wtask, result, callStep, callTask, delayed, aiGen>>
    BY <1>4 DEF CancelActive, SignalStep, RaiseSignal, LowerSignal, PauseBackground, workerVars, callVars
  <2>2. ASSUME NEW j PROVE AskedNow(j)' = AskedNow(j)
    BY <2>1, WorkersStay DEF AskedNow, Calling, Timed
  <2>3. UNCHANGED Work!vars
    BY <1>1, <2>1, <2>2, WorkersStay, SamePromise DEF MediaKeys
  <2>4. QED  BY <2>3
<1>5. CASE Restart
  <2>1. \A j : ~AskedNow(j)'
    BY <1>5 DEF Restart, AskedNow, Calling, Timed, LettingGo, LetsGo
  <2>2. Asked' = {}
    BY <2>1, AskedKeys DEF AskedNow
  <2>3. \A e \in Pair : ~Does(e)' /\ ~CutsOff(e)'
    BY <1>5, PairParts DEF Restart, Does, CutsOff, Working
  <2>4. Doing' = {} /\ Short' = {}
    BY <2>3, DoingPairsNext DEF PairsOK
  <2>5. (MediaKeys \cap queued)' = {}
    BY <1>5 DEF Restart
  <2>6. Work!Crash
    BY <2>2, <2>4, <2>5 DEF Work!Crash
  <2>7. QED  BY <2>6 DEF Work!Next
<1>6. QED  BY <1>2, <1>3, <1>4, <1>5 DEF StopStep

LEMMA StepPromise ==
    ASSUME NoStops, PromiseInv, TypeOK', [Next]_vars
    PROVE  [Work!Next]_(Work!vars)
<1>1. CASE UNCHANGED vars
  <2>1. UNCHANGED <<queued, wpc, wtask, result, callStep, callTask, delayed, aiGen>>
    BY <1>1 DEF vars, workerVars, callVars
  <2>2. ASSUME NEW j PROVE AskedNow(j)' = AskedNow(j)
    BY <2>1, WorkersStay DEF AskedNow, Calling, Timed
  <2>3. UNCHANGED Work!vars
    BY <2>1, <2>2, WorkersStay, SamePromise DEF MediaKeys, PromiseInv, HeldInv
  <2>4. QED  BY <2>3
<1>2. ASSUME NEW p \in Proc, EnqueueStep(p) PROVE [Work!Next]_(Work!vars)
  BY <1>2, ClaimPromise, PushPromise DEF EnqueueStep
<1>3. ASSUME NEW w \in Worker, WorkerStep(w) PROVE [Work!Next]_(Work!vars)
  BY <1>3, WorkerPromise
<1>4. ASSUME NEW c \in Caller, CallerStep(c) PROVE [Work!Next]_(Work!vars)
  BY <1>4, CallerPromise
<1>5. QED
  BY <1>1, <1>2, <1>3, <1>4, OtherPromise DEF Next

LEMMA InitPromise == Init => Work!Init /\ PromiseInv
<1>1. SUFFICES ASSUME Init PROVE Work!Init /\ PromiseInv
  OBVIOUS
<1>2. TypeOK /\ HeldInv /\ DelayedFresh
  BY <1>1, InitTypeOK, InitHeld DEF Init, DelayedFresh
<1>3. \A j : ~AskedNow(j)
  BY <1>1 DEF Init, AskedNow, Calling, Timed, LettingGo, LetsGo
<1>4. Asked = {}
  BY <1>3, AskedKeys DEF AskedNow
<1>5. \A e \in Pair : ~Does(e) /\ ~CutsOff(e)
  BY <1>1, PairParts DEF Init, Does, CutsOff, Working
<1>6. Doing = {} /\ Short = {}
  BY <1>2, <1>5, DoingPairs DEF PairsOK
<1>7. MediaKeys \cap queued = {}
  BY <1>1 DEF Init
<1>8. QED  BY <1>2, <1>4, <1>6, <1>7 DEF Work!Init, PromiseInv

\* A retry is due only in the present generation, and only a stop moves it.
LEMMA DelayedFreshStep ==
    ASSUME NoStops, TypeOK, NoneClears, DelayedFresh, [Next]_vars
    PROVE  DelayedFresh'
<1>1. spent.stops \in Nat /\ MaxStops = 0
  BY DEF TypeOK, ControlOK, NoStops
<1>2. ASSUME delayed' \subseteq delayed, aiGen' = aiGen PROVE DelayedFresh'
  BY <1>2 DEF DelayedFresh, Stale
<1>3. CASE UNCHANGED vars
  BY <1>2, <1>3 DEF vars
<1>4. ASSUME NEW p \in Proc, EnqueueStep(p) PROVE DelayedFresh'
  BY <1>2, <1>4 DEF EnqueueStep, Claim, Push, PushFails, Promote
<1>5. ASSUME NEW w \in Worker, WorkerStep(w), ~Requeue(w) PROVE DelayedFresh'
  BY <1>2, <1>5 DEF WorkerStep, BeginPoll, PollTimesOut, Pop, EnterTask, Acquire, AcquireCancelled,
     Preempt, Finish, ReleaseKey
<1>6. ASSUME NEW w \in Worker, Requeue(w) PROVE DelayedFresh'
  <2>1. wtask[w] \in Task /\ aiGen' = aiGen
    BY <1>6 DEF Requeue, TypeOK, WorkersOK
  <2>2. CASE delayed' = delayed
    BY <1>2, <2>1, <2>2
  <2>3. CASE RetryDue(wtask[w], result[w]) /\ delayed' = delayed \cup {NextAttempt(wtask[w])}
    <3>1. \E u : u = NextAttempt(wtask[w])
      OBVIOUS
    <3>2. PICK u : u = NextAttempt(wtask[w])
      BY <3>1
    <3>3. u.type = wtask[w].type /\ u.gen = wtask[w].gen
      BY <2>1, <3>2 DEF NextAttempt, Task
    <3>4. ~Stale(u)'
      BY <2>1, <2>3, <3>3 DEF Stale, RetryDue
    <3>5. \A t \in delayed : ~Stale(t)'
      BY <2>1 DEF DelayedFresh, Stale
    <3>6. delayed' = delayed \cup {u}
      BY <2>3, <3>2
    <3>7. QED  BY <3>4, <3>5, <3>6 DEF DelayedFresh
  <2>4. QED  BY <1>6, <2>2, <2>3 DEF Requeue
<1>7. ASSUME NEW c \in Caller, CallerStep(c) PROVE DelayedFresh'
  <2>1. delayed' \subseteq delayed /\ aiGen' = aiGen
    BY <1>7 DEF CallerStep, Submit, RetryEnqueues
  <2>2. QED  BY <1>2, <2>1
<1>8. CASE RetryExpires \/ SignalStep \/ CancelActive
  BY <1>2, <1>8 DEF RetryExpires, SignalStep, RaiseSignal, LowerSignal, PauseBackground, CancelActive
<1>9. CASE Restart
  BY <1>9 DEF Restart, DelayedFresh
<1>10. ~(\E g \in StopGroups : BeginStop(g)) /\ ~ClearQueues
  BY <1>1 DEF BeginStop, ClearQueues, NoneClears
<1>11. QED
  BY <1>3, <1>4, <1>5, <1>6, <1>7, <1>8, <1>9, <1>10 DEF Next, StopStep

\* Without user stops the manager implements WorkPromise for any types, items,
\* workers and requests: an item is done by one worker at a time and only if it
\* was taken, and what a preemption, a pause or a failure within the limit cut
\* short is asked for again at once, until it is taken anew or the process dies
\* (enqueue, runTask and requeueAfterResult of jobs.go).
THEOREM WorkIsKept == ASSUME NoStops PROVE Spec => KeepsWork
<1>1. Init => Work!Init /\ PromiseInv
  BY InitPromise
<1>2. PromiseInv /\ [Next]_vars => PromiseInv'
  BY StepHeld, DelayedFreshStep DEF PromiseInv, HeldInv
<1>3. PromiseInv /\ PromiseInv' /\ [Next]_vars => [Work!Next]_(Work!vars)
  BY StepPromise DEF PromiseInv, HeldInv
<1>4. QED
  BY <1>1, <1>2, <1>3, PTL DEF Spec, KeepsWork, Work!Spec

-----------------------------------------------------------------------------
(* Nobody waits in a circle *)

Levels == 0..4

LEMMA LevelRange == ASSUME NEW type \in TaskType PROVE Level(type) \in Levels
  BY ConstantsAssumption DEF ConstantsAssumption, Level, Levels, MediaType

\* Of the types that have entries, one is waited for by none of the others.
LEMMA LowestBacklog ==
    ASSUME NEW some \in TaskType, queue[some] # <<>>
    PROVE  \E type \in TaskType : /\ queue[type] # <<>>
                                  /\ \A other \in TaskType :
                                        queue[other] # <<>> => Level(type) <= Level(other)
<1> DEFINE HasLevel(n) == \E type \in TaskType : queue[type] # <<>> /\ Level(type) = n
<1>1. \E n \in Levels : HasLevel(n) /\ \A m \in Levels : HasLevel(m) => n <= m
  <2>1. HasLevel(0) \/ HasLevel(1) \/ HasLevel(2) \/ HasLevel(3) \/ HasLevel(4)
    BY LevelRange DEF Levels
  <2> HIDE DEF HasLevel
  <2>2. QED  BY <2>1 DEF Levels
<1>2. QED  BY <1>1, LevelRange

LEMMA SomeoneCanMove == TypeOK => SomeoneMoves
<1> SUFFICES ASSUME TypeOK, signals = {}, ~Rest
             PROVE  \E w \in Worker : Moves(w)
  BY DEF SomeoneMoves
<1>1. wpc \in [Worker -> {"idle", "polling", "popped", "acquiring", "running", "finished", "ended"}]
  BY DEF TypeOK, WorkersOK
<1>2. CASE \E w \in Worker : wpc[w] \in {"popped", "running", "finished", "ended"}
  BY <1>2 DEF Moves
<1>3. ASSUME NEW w \in Worker, wpc[w] = "acquiring",
             \A v \in Worker : wpc[v] \notin {"popped", "running", "finished", "ended"}
      PROVE  Moves(w)
  <2>1. SlotHolders = {}
    BY <1>3 DEF SlotHolders
  <2>2. Cardinality(SlotHolders) = 0
    BY <2>1, FS_EmptySet
  <2>3. SlotFree
    BY <2>2, ConstantsAssumption DEF SlotFree, ConstantsAssumption
  <2>4. QED  BY <1>3, <2>3 DEF Moves
<1>4. CASE \A w \in Worker : wpc[w] \in {"idle", "polling"}
  <2>1. \E some \in TaskType : queue[some] # <<>>
    BY <1>4 DEF Rest
  <2>2. PICK type \in TaskType : /\ queue[type] # <<>>
                                 /\ \A other \in TaskType :
                                       queue[other] # <<>> => Level(type) <= Level(other)
    BY <2>1, LowestBacklog
  <2>3. PICK w \in Worker : type \in Served(w)
    BY PoolsAssumption DEF PoolsAssumption
  <2>4. HasWork(w)
    BY <2>2, <2>3 DEF HasWork
  <2>5. Level(type) \in Int /\ \A other \in TaskType : Level(other) \in Int
    BY LevelRange DEF Levels
  <2>6. \A blocker \in BlockedBy[w] : queue[blocker] = <<>>
    <3>1. BlockedBy[w] \subseteq TaskType
      BY ConstantsAssumption DEF ConstantsAssumption
    <3>2. \A blocker \in BlockedBy[w] : Level(blocker) < Level(type)
      BY <2>3, PoolsAssumption DEF PoolsAssumption
    <3>3. QED  BY <2>2, <2>5, <3>1, <3>2
  <2>7. AIWorker(w) => ~StoryboardActive
    <3>1. ASSUME AIWorker(w), StoryboardActive PROVE FALSE
      <4>1. type = "ai_analyze"
        BY <2>3, <3>1, PoolsAssumption DEF AIWorker, PoolsAssumption
      <4>2. "storyboard" \in TaskType /\ queue["storyboard"] # <<>>
        BY <1>4, <3>1 DEF StoryboardActive
      <4>3. Level("ai_analyze") = 4 /\ Level("storyboard") = 3
        BY DEF Level, ControlType, KeyedControlType, PlainControlType
      <4>4. QED  BY <2>2, <4>1, <4>2, <4>3
    <3>2. QED  BY <3>1
  <2>8. GatesOpen(w)
    BY <2>6, <2>7 DEF GatesOpen, Blocking
  <2>9. QED  BY <1>4, <2>4, <2>8 DEF Moves
<1>5. QED  BY <1>1, <1>2, <1>3, <1>4

\* Whatever is queued or worked on, and however the entries came there, the gates
\* and the slots never leave all workers waiting for one another while no signal
\* is raised: the pools wait only for the pools before them, and who holds a slot
\* needs nothing else to finish (Manager.Start and redisWorker of jobs.go).
THEOREM WorkersNeverAllWait == Spec => []SomeoneMoves
<1>1. TypeOK => SomeoneMoves
  BY SomeoneCanMove
<1>2. QED  BY <1>1, TypeCorrect, PTL

=============================================================================
