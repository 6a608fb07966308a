---------------------------- MODULE Scanner_proof ----------------------------
(***************************************************************************)
(* The scanner, for any roots, requests, files and bounds.                 *)
(*                                                                         *)
(* Its command loop (ScanCommand): type correctness, that the loop         *)
(* implements ScanPromise, and that nothing waits without a wake-up.       *)
(*                                                                         *)
(* A run (LibraryScan): it hides no row of a file that was there all       *)
(* along, between two runs all work has been enqueued, and a run without   *)
(* error has found every file it could.  The steps of a run replace its    *)
(* whole record, so each is described field by field first (WalkedRoot,    *)
(* Examined, Wrote, ...); the invariants are then preserved by these       *)
(* descriptions, for the steps of the run (Visits), those that begin one   *)
(* (Beginnings) and all others (World).                                    *)
(***************************************************************************)
EXTENDS ScanCommand, LibraryScan, Integers, NaturalsInduction, WellFoundedInduction, TLAPS

-----------------------------------------------------------------------------
(* Requests: merging never narrows what is covered *)

LEMMA RequestFields ==
    ASSUME NEW r \in ScanRequest
    PROVE  /\ r.task \in ScanTask /\ r.auto \in BOOLEAN /\ r.override \in BOOLEAN
           /\ r.roots \subseteq MediaRoot /\ r.nested \in BOOLEAN /\ r.paths \subseteq Spot
           /\ r # NoRequest
  BY ConstantsAssumption DEF ScanRequest, ConstantsAssumption

LEMMA CoversUnits ==
    ASSUME NEW r \in ScanRequest
    PROVE  Covers(r) \subseteq Unit
  BY RequestFields DEF Covers, Unit

\* Requests that sameScanRequest takes for equal visit the same places.
LEMMA SameCovers ==
    ASSUME NEW a \in ScanRequest, NEW b \in ScanRequest, Same(a, b)
    PROVE  Covers(a) = Covers(b)
<1>1. a.task = b.task /\ a.override = b.override /\ a.nested = b.nested
      /\ a.roots = b.roots /\ a.paths = b.paths
  BY DEF Same
<1>2. QED
  BY <1>1 DEF Covers

LEMMA MergeFields ==
    ASSUME NEW a \in ScanRequest, NEW b \in ScanRequest
    PROVE  /\ Merge(a, b) \in ScanRequest
           /\ Merge(a, b).task = a.task
           /\ Merge(a, b).nested = (a.nested /\ b.nested)
           /\ Merge(a, b).override = (a.override /\ b.override)
           /\ Merge(a, b).roots = IF a.override /\ b.override THEN a.roots \cup b.roots ELSE {}
           /\ Merge(a, b).paths = IF a.paths = {} \/ b.paths = {} THEN {} ELSE a.paths \cup b.paths
  BY ZenonT(40), RequestFields DEF Merge, ScanRequest

\* mergeScanRequests visits what either request would have visited.
LEMMA MergeCovers ==
    ASSUME NEW a \in ScanRequest, NEW b \in ScanRequest, a.task = b.task
    PROVE  Covers(a) \cup Covers(b) \subseteq Covers(Merge(a, b))
<1> DEFINE c == Merge(a, b)
<1>1. /\ c.task = a.task /\ c.nested = (a.nested /\ b.nested)
      /\ c.override = (a.override /\ b.override)
      /\ c.override => a.roots \subseteq c.roots /\ b.roots \subseteq c.roots
      /\ c.paths # {} => /\ a.paths # {} /\ b.paths # {}
                         /\ a.paths \subseteq c.paths /\ b.paths \subseteq c.paths
  <2>1. /\ c.task = a.task /\ c.nested = (a.nested /\ b.nested)
        /\ c.override = (a.override /\ b.override)
        /\ c.roots = IF a.override /\ b.override THEN a.roots \cup b.roots ELSE {}
        /\ c.paths = IF a.paths = {} \/ b.paths = {} THEN {} ELSE a.paths \cup b.paths
    BY MergeFields
  <2> HIDE DEF c
  <2>2. QED  BY <2>1, RequestFields
<1> HIDE DEF c
<1>2. Covers(a) \subseteq Covers(c)
  BY <1>1, RequestFields DEF Covers
<1>3. Covers(b) \subseteq Covers(c)
  BY <1>1, RequestFields DEF Covers
<1>4. QED  BY <1>2, <1>3 DEF c

-----------------------------------------------------------------------------
(* Lists of requests *)

LEMMA CoveredByUnits ==
    ASSUME NEW q \in Seq(ScanRequest)
    PROVE  CoveredBy(q) \subseteq Unit
  BY CoversUnits DEF CoveredBy

LEMMA CoveredByEntry ==
    ASSUME NEW q \in Seq(ScanRequest), NEW u
    PROVE  u \in CoveredBy(q) <=> \E i \in 1..Len(q) : u \in Covers(q[i])
<1>1. DOMAIN q = 1..Len(q)
  OBVIOUS
<1>2. QED
  BY <1>1 DEF CoveredBy

LEMMA CoveredByShort ==
    ASSUME NEW r \in ScanRequest
    PROVE  CoveredBy(<<>>) = {} /\ CoveredBy(<<r>>) = Covers(r) /\ <<r>> \in Seq(ScanRequest)
<1>1. <<>> \in Seq(ScanRequest) /\ Len(<<>>) = 0 /\ 1..0 = {}
  OBVIOUS
<1>2. CoveredBy(<<>>) = {}
  BY <1>1, CoveredByEntry
<1>3. <<r>> \in Seq(ScanRequest) /\ Len(<<r>>) = 1 /\ <<r>>[1] = r /\ 1..1 = {1}
  OBVIOUS
<1>4. CoveredBy(<<r>>) = Covers(r)
  BY <1>3, CoveredByEntry
<1>5. QED  BY <1>2, <1>3, <1>4

\* What a list covers is what its head and its tail cover.
LEMMA CoveredByHeadTail ==
    ASSUME NEW q \in Seq(ScanRequest), q # <<>>
    PROVE  /\ Head(q) \in ScanRequest /\ Tail(q) \in Seq(ScanRequest)
           /\ CoveredBy(q) = Covers(Head(q)) \cup CoveredBy(Tail(q))
<1>1. /\ Head(q) \in ScanRequest /\ Head(q) = q[1] /\ Len(q) \in Nat /\ Len(q) >= 1
      /\ Tail(q) \in Seq(ScanRequest) /\ Len(Tail(q)) = Len(q) - 1
      /\ \A i \in 1..(Len(q) - 1) : Tail(q)[i] = q[i + 1]
  OBVIOUS
<1>2. SUFFICES ASSUME NEW u
               PROVE  u \in CoveredBy(q) <=> u \in Covers(q[1]) \/ u \in CoveredBy(Tail(q))
  BY <1>1
<1>3. u \in CoveredBy(Tail(q)) <=> \E i \in 1..(Len(q) - 1) : u \in Covers(q[i + 1])
  BY <1>1, CoveredByEntry
<1>4. ASSUME NEW i \in 1..Len(q), i # 1 PROVE i - 1 \in 1..(Len(q) - 1) /\ (i - 1) + 1 = i
  BY <1>1, <1>4
<1>5. (\E i \in 1..Len(q) : u \in Covers(q[i]))
        <=> u \in Covers(q[1]) \/ \E i \in 1..(Len(q) - 1) : u \in Covers(q[i + 1])
  BY <1>1, <1>4
<1>6. QED
  BY <1>3, <1>5, CoveredByEntry

LEMMA CoveredByAppend ==
    ASSUME NEW q \in Seq(ScanRequest), NEW r \in ScanRequest
    PROVE  /\ Append(q, r) \in Seq(ScanRequest) /\ Append(q, r) # <<>>
           /\ CoveredBy(q) \cup Covers(r) \subseteq CoveredBy(Append(q, r))
<1>1. /\ Append(q, r) \in Seq(ScanRequest) /\ Len(Append(q, r)) = Len(q) + 1 /\ Len(q) \in Nat
      /\ \A i \in 1..Len(q) : Append(q, r)[i] = q[i]
      /\ Append(q, r)[Len(q) + 1] = r
  OBVIOUS
<1>2. Append(q, r) # <<>>
  BY <1>1
<1> DEFINE new == Append(q, r)
<1>3. /\ new \in Seq(ScanRequest) /\ Len(new) = Len(q) + 1 /\ Len(q) \in Nat
      /\ \A i \in 1..Len(q) : i \in 1..Len(new) /\ new[i] = q[i]
      /\ Len(q) + 1 \in 1..Len(new) /\ new[Len(q) + 1] = r
  BY <1>1
<1> HIDE DEF new
<1>4. ASSUME NEW u PROVE u \in CoveredBy(q) => u \in CoveredBy(new)
  BY <1>3, CoveredByEntry
<1>5. ASSUME NEW u PROVE u \in Covers(r) => u \in CoveredBy(new)
  BY <1>3, CoveredByEntry
<1>6. CoveredBy(q) \cup Covers(r) \subseteq CoveredBy(new)
  BY <1>4, <1>5
<1>7. QED  BY <1>1, <1>2, <1>6 DEF new

\* A set of positions has a first one.
LEMMA FirstPosition ==
    ASSUME NEW T, T \subseteq Nat, T # {}
    PROVE  \E x \in T : \A y \in T : x <= y
<1>1. \E x \in T : \A y \in T : ~(<<y, x>> \in OpToRel(<, Nat))
  BY NatLessThanWellFounded, WFMin
<1>2. OpToRel(<, Nat) = {ss \in Nat \X Nat : ss[1] < ss[2]}
  BY DEF OpToRel
<1>3. PICK x \in T : \A y \in T : ~(<<y, x>> \in {ss \in Nat \X Nat : ss[1] < ss[2]})
  BY <1>1, <1>2
<1>4. ASSUME NEW y \in T PROVE x <= y
  <2>1. x \in Nat /\ y \in Nat /\ <<y, x>> \in Nat \X Nat /\ <<y, x>>[1] = y /\ <<y, x>>[2] = x
    OBVIOUS
  <2>2. ~(y < x)
    BY <1>3, <2>1
  <2>3. QED  BY <2>1, <2>2
<1>5. QED  BY <1>4

\* enqueueScanRequest keeps what the list covered and adds the new request.
LEMMA EnqueuedCovers ==
    ASSUME NEW q \in Seq(ScanRequest), NEW r \in ScanRequest
    PROVE  /\ Enqueued(q, r) \in Seq(ScanRequest) /\ Enqueued(q, r) # <<>>
           /\ CoveredBy(q) \cup Covers(r) \subseteq CoveredBy(Enqueued(q, r))
<1> DEFINE Mergeable == {i \in DOMAIN q : r.auto /\ q[i].task = r.task}
           first == CHOOSE i \in Mergeable : \A j \in Mergeable : i <= j
           new == [q EXCEPT ![first] = Merge(@, r)]
<1>1. CASE Mergeable = {}
  BY <1>1, CoveredByAppend DEF Enqueued
<1>2. CASE Mergeable # {}
  <2>1. DOMAIN q = 1..Len(q) /\ Mergeable \subseteq Nat
    OBVIOUS
  <2>2. first \in Mergeable
    BY <1>2, <2>1, FirstPosition
  <2>3. Enqueued(q, r) = new
    BY <1>2 DEF Enqueued
  <2> HIDE DEF first
  <2>4. first \in 1..Len(q) /\ q[first] \in ScanRequest /\ q[first].task = r.task
    BY <2>1, <2>2
  <2>5. Merge(q[first], r) \in ScanRequest
    BY <2>4, MergeFields
  <2>6. /\ new \in Seq(ScanRequest) /\ Len(new) = Len(q)
        /\ \A i \in 1..Len(q) : new[i] = IF i = first THEN Merge(q[first], r) ELSE q[i]
    BY <2>4, <2>5
  <2>7. Covers(q[first]) \cup Covers(r) \subseteq Covers(new[first])
    BY <2>4, <2>6, MergeCovers
  <2> HIDE DEF new
  <2>8. CoveredBy(q) \cup Covers(r) \subseteq CoveredBy(new)
    BY <2>4, <2>6, <2>7, CoveredByEntry
  <2>9. new # <<>>
    BY <2>4, <2>6
  <2>10. QED  BY <2>3, <2>6, <2>8, <2>9
<1>3. QED  BY <1>1, <1>2
-----------------------------------------------------------------------------
(* The channel *)

Command == [kind: {"start", "stop"}, req: ScanRequest \cup {NoRequest}]

\* A command that is sent leaves the earlier ones as they are.
LEMMA PostedInbox ==
    ASSUME InboxOK, NEW k, NEW r, Post(k, r),
           \/ k = "start" /\ r \in ScanRequest
           \/ k = "stop" /\ r = NoRequest
    PROVE  /\ InboxOK'
           /\ OfferedAll(inbox') # <<>>
           /\ OfferedAll(inbox) = SubSeq(OfferedAll(inbox'), 1, Len(OfferedAll(inbox')) - 1)
<1> DEFINE c == [kind |-> k, req |-> r]
           n == Len(inbox)
<1>1. r # NoRequest <=> k = "start"
  BY ConstantsAssumption DEF ConstantsAssumption
<1>2. c \in Command /\ (c.kind = "start" <=> c.req # NoRequest)
  BY <1>1 DEF Command
<1>3. inbox \in Seq(Command) /\ n \in Nat /\ n < Depth /\ Depth \in Nat
      /\ inbox' = Append(inbox, c)
  BY ConstantsAssumption DEF InboxOK, Post, Command, ConstantsAssumption
<1> HIDE DEF c
<1>4. /\ inbox' \in Seq(Command) /\ Len(inbox') = n + 1 /\ DOMAIN inbox' = 1..(n + 1)
      /\ DOMAIN inbox = 1..n
      /\ \A i \in 1..n : inbox'[i] = inbox[i]
      /\ inbox'[n + 1] = c
  BY <1>2, <1>3
<1>5. InboxOK'
  <2>1. \A i \in DOMAIN inbox : inbox[i].kind = "start" <=> inbox[i].req # NoRequest
    BY DEF InboxOK
  <2>2. ASSUME NEW i \in DOMAIN inbox'
        PROVE  inbox'[i].kind = "start" <=> inbox'[i].req # NoRequest
    <3>1. i \in 1..n \/ i = n + 1
      BY <1>3, <1>4
    <3>2. QED  BY <1>2, <1>4, <2>1, <3>1
  <2>3. Len(inbox') <= Depth
    BY <1>3, <1>4
  <2>4. QED  BY <1>4, <2>2, <2>3 DEF InboxOK, Command
<1> DEFINE o == OfferedAll(inbox')
<1>6. /\ o \in Seq({Offered(inbox'[i]) : i \in 1..(n + 1)}) /\ Len(o) = n + 1
      /\ \A i \in 1..n : o[i] = Offered(inbox[i])
  BY <1>3, <1>4 DEF OfferedAll
<1> HIDE DEF o
<1>7. o # <<>>
  BY <1>3, <1>6
<1>8. SubSeq(o, 1, Len(o) - 1) = [i \in 1..n |-> o[i]]
  BY <1>3, <1>6
<1>9. OfferedAll(inbox) = SubSeq(o, 1, Len(o) - 1)
  BY <1>4, <1>6, <1>8 DEF OfferedAll
<1>10. QED  BY <1>5, <1>7, <1>9 DEF o

LEMMA TailFunction ==
    ASSUME NEW S, NEW q \in Seq(S), q # <<>>
    PROVE  Tail(q) = [i \in 1..(Len(q) - 1) |-> q[i + 1]]
<1>1. /\ Tail(q) \in Seq(S) /\ Len(Tail(q)) = Len(q) - 1 /\ Len(q) - 1 \in Nat
      /\ \A i \in 1..(Len(q) - 1) : Tail(q)[i] = q[i + 1]
  OBVIOUS
<1> DEFINE t == Tail(q)
           m == Len(q) - 1
<1>2. t \in Seq(S) /\ Len(t) = m /\ m \in Nat /\ \A i \in 1..m : t[i] = q[i + 1]
  BY <1>1
<1> HIDE DEF t, m
<1>3. t \in [1..m -> S]
  BY <1>2
<1>4. t = [i \in 1..m |-> q[i + 1]]
  BY <1>2, <1>3
<1>5. QED  BY <1>4 DEF t, m

\* A command that is taken was the first, and the others move up.
LEMMA TakenInbox ==
    ASSUME InboxOK, NEW k, Take(k)
    PROVE  /\ InboxOK'
           /\ Head(inbox) \in Command /\ Head(inbox).kind = k
           /\ k = "start" => Head(inbox).req \in ScanRequest
           /\ OfferedAll(inbox) # <<>>
           /\ Head(OfferedAll(inbox)) = Offered(Head(inbox))
           /\ OfferedAll(inbox') = Tail(OfferedAll(inbox))
<1> DEFINE n == Len(inbox)
<1>1. /\ inbox \in Seq(Command) /\ inbox # <<>> /\ inbox' = Tail(inbox)
      /\ Head(inbox).kind = k /\ Len(inbox) <= Depth /\ Depth \in Nat
      /\ \A i \in DOMAIN inbox : inbox[i].kind = "start" <=> inbox[i].req # NoRequest
  BY ConstantsAssumption DEF InboxOK, Take, Command, ConstantsAssumption
<1>2. /\ n \in Nat \ {0} /\ DOMAIN inbox = 1..n
      /\ inbox' \in Seq(Command) /\ Len(inbox') = n - 1 /\ DOMAIN inbox' = 1..(n - 1)
      /\ \A i \in 1..(n - 1) : inbox'[i] = inbox[i + 1] /\ i + 1 \in 1..n
      /\ Head(inbox) = inbox[1] /\ Head(inbox) \in Command /\ 1 \in 1..n
  BY <1>1
<1>3. InboxOK'
  <2>1. Len(inbox') <= Depth
    BY <1>1, <1>2
  <2>2. \A i \in DOMAIN inbox' : inbox'[i].kind = "start" <=> inbox'[i].req # NoRequest
    BY <1>1, <1>2
  <2>3. QED  BY <1>2, <2>1, <2>2 DEF InboxOK, Command
<1>4. k = "start" => Head(inbox).req \in ScanRequest
  BY <1>1, <1>2 DEF Command
<1> DEFINE o == OfferedAll(inbox)
<1>5. /\ o \in Seq({Offered(inbox[i]) : i \in 1..n}) /\ Len(o) = n
      /\ \A i \in 1..n : o[i] = Offered(inbox[i])
  BY <1>2 DEF OfferedAll
<1> HIDE DEF o
<1>6. o # <<>> /\ Head(o) = Offered(Head(inbox))
  BY <1>2, <1>5
<1>7. Tail(o) = [i \in 1..(n - 1) |-> o[i + 1]]
  BY <1>5, <1>6, TailFunction
<1>8. OfferedAll(inbox') = [i \in 1..(n - 1) |-> Offered(inbox[i + 1])]
  BY <1>2 DEF OfferedAll
<1>9. OfferedAll(inbox') = Tail(o)
  BY <1>2, <1>5, <1>7, <1>8
<1>10. QED  BY <1>1, <1>2, <1>3, <1>4, <1>6, <1>9 DEF o
-----------------------------------------------------------------------------
(* The steps that start a run *)

LEMMA StartIdleRuns ==
    ASSUME LoopTypeOK, StartIdle
    PROVE  /\ active' \in ScanRequest /\ pending' \in Seq(ScanRequest)
           /\ Owed \cup Covers(Head(inbox).req) \subseteq Covers(active') \cup Owed'
<1> DEFINE r == Head(inbox).req
           q == IF pending = <<>> THEN <<r>> ELSE Enqueued(pending, r)
<1>1. r \in ScanRequest
  BY TakenInbox DEF LoopTypeOK, StartIdle
<1>2. pending \in Seq(ScanRequest)
  BY DEF LoopTypeOK, RunOK
<1>3. active' = Head(q) /\ pending' = Tail(q)
  BY DEF StartIdle, StartRun
<1>4. /\ q \in Seq(ScanRequest) /\ q # <<>>
      /\ CoveredBy(pending) \cup Covers(r) \subseteq CoveredBy(q)
  <2>1. CASE pending = <<>>
    <3>1. <<r>> # <<>>
      OBVIOUS
    <3>2. QED  BY <1>1, <2>1, <3>1, CoveredByShort
  <2>2. CASE pending # <<>>
    BY <1>1, <1>2, <2>2, EnqueuedCovers
  <2>3. QED  BY <2>1, <2>2
<1> HIDE DEF q, r
<1>5. /\ active' \in ScanRequest /\ pending' \in Seq(ScanRequest)
      /\ CoveredBy(q) = Covers(active') \cup CoveredBy(pending')
  BY <1>3, <1>4, CoveredByHeadTail
<1>6. CoveredBy(pending) \cup Covers(r) \subseteq Covers(active') \cup CoveredBy(pending')
  BY <1>4, <1>5
<1>7. QED  BY <1>5, <1>6 DEF Owed, r

LEMMA DoneRuns ==
    ASSUME LoopTypeOK, Done, pending # <<>>, ~paused
    PROVE  /\ active' \in ScanRequest /\ pending' \in Seq(ScanRequest)
           /\ Owed = Covers(active') \cup Owed'
<1>1. pending \in Seq(ScanRequest)
  BY DEF LoopTypeOK, RunOK
<1>2. active' = Head(pending) /\ pending' = Tail(pending)
  BY DEF Done, StartRun
<1>3. QED  BY <1>1, <1>2, CoveredByHeadTail DEF Owed

-----------------------------------------------------------------------------
(* Type correctness *)

LEMMA InitTypeOK == LoopInit => LoopTypeOK
<1> SUFFICES ASSUME LoopInit PROVE LoopTypeOK
  OBVIOUS
<1>1. CallersOK
  BY DEF LoopInit, CallersOK
<1>2. InboxOK
  BY ConstantsAssumption DEF LoopInit, InboxOK, ConstantsAssumption
<1>3. RunOK
  <2>1. <<>> \in Seq(ScanRequest)
    OBVIOUS
  <2>2. QED  BY <2>1 DEF LoopInit, RunOK
<1>4. QED  BY <1>1, <1>2, <1>3 DEF LoopTypeOK

LEMMA StepTypeOK == LoopTypeOK /\ [LoopNext]_loopVars => LoopTypeOK'
<1> SUFFICES ASSUME LoopTypeOK, [LoopNext]_loopVars PROVE LoopTypeOK'
  OBVIOUS
<1>a. CallersOK /\ InboxOK /\ RunOK
  BY DEF LoopTypeOK
<1>b. Request \subseteq ScanRequest /\ ResumeRequest \in ScanRequest /\ NoRequest \notin ScanRequest
  BY ConstantsAssumption DEF ConstantsAssumption
<1>c. ASSUME UNCHANGED <<asking, paused, owesCall, spent>> PROVE CallersOK'
  BY <1>a, <1>c DEF CallersOK
<1>d. ASSUME UNCHANGED inbox PROVE InboxOK'
  BY <1>a, <1>d DEF InboxOK
<1>e. ASSUME UNCHANGED <<pending, active, cancelled, activeRun, state>> PROVE RunOK'
  BY <1>a, <1>e DEF RunOK
<1>1. CASE UNCHANGED loopVars
  BY <1>1, <1>c, <1>d, <1>e DEF loopVars, runVars, callerVars, LoopTypeOK
<1>2. ASSUME NEW r \in Request, Ask(r) PROVE LoopTypeOK'
  <2>1. CallersOK'
    BY <1>2, <1>a DEF Ask, Spends, CallersOK
  <2>2. QED  BY <1>2, <2>1, <1>d, <1>e DEF Ask, runVars, LoopTypeOK
<1>3. ASSUME NEW r \in Request, Send(r) PROVE LoopTypeOK'
  <2>1. CallersOK'
    BY <1>3, <1>a DEF Send, CallersOK
  <2>2. InboxOK'
    BY <1>3, <1>a, <1>b, PostedInbox DEF Send
  <2>3. QED  BY <1>3, <2>1, <2>2, <1>e DEF Send, runVars, LoopTypeOK
<1>4. CASE RequestStop
  <2>1. CallersOK'
    BY <1>4, <1>a DEF RequestStop, Spends, CallersOK
  <2>2. InboxOK'
    BY <1>4, <1>a, PostedInbox DEF RequestStop
  <2>3. QED  BY <1>4, <2>1, <2>2, <1>e DEF RequestStop, runVars, LoopTypeOK
<1>5. CASE SetPause
  <2>1. CallersOK'
    BY <1>5, <1>a DEF SetPause, CallersOK
  <2>2. QED  BY <1>5, <2>1, <1>d, <1>e DEF SetPause, runVars, LoopTypeOK
<1>6. CASE PauseCalls
  <2>1. CallersOK'
    BY <1>6, <1>a DEF PauseCalls, CallersOK
  <2>2. owesCall = "start" \/ owesCall = "stop"
    BY <1>6, <1>a DEF PauseCalls, CallersOK
  <2>3. InboxOK'
    BY <1>6, <1>a, <1>b, <2>2, PostedInbox DEF PauseCalls
  <2>4. QED  BY <1>6, <2>1, <2>3, <1>e DEF PauseCalls, runVars, LoopTypeOK
<1>7. CASE Refuse
  <2>1. InboxOK'
    BY <1>7, <1>a, TakenInbox DEF Refuse
  <2>2. QED  BY <1>7, <2>1, <1>c, <1>e DEF Refuse, runVars, callerVars, LoopTypeOK
<1>8. CASE StartIdle
  <2>1. InboxOK'
    BY <1>8, <1>a, TakenInbox DEF StartIdle
  <2>2. active' \in ScanRequest /\ pending' \in Seq(ScanRequest)
    BY <1>8, StartIdleRuns
  <2>3. activeRun' = "running" /\ cancelled' = FALSE /\ state' = "running"
    BY <1>8 DEF StartIdle, StartRun
  <2>4. RunOK'
    BY <2>2, <2>3, <1>b DEF RunOK
  <2>5. QED  BY <1>8, <2>1, <2>4, <1>c DEF StartIdle, callerVars, LoopTypeOK
<1>9. CASE Join
  <2>1. InboxOK'
    BY <1>9, <1>a, TakenInbox DEF Join
  <2>2. QED  BY <1>9, <2>1, <1>c, <1>e DEF Join, runVars, callerVars, LoopTypeOK
<1>10. CASE Wait
  <2>1. InboxOK' /\ Head(inbox).req \in ScanRequest
    BY <1>10, <1>a, TakenInbox DEF Wait, NewWhileBusy
  <2>2. pending' \in Seq(ScanRequest)
    BY <1>10, <2>1, <1>a, EnqueuedCovers DEF Wait, RunOK
  <2>3. RunOK'
    BY <1>10, <2>2, <1>a DEF Wait, runVars, RunOK
  <2>4. QED  BY <1>10, <2>1, <2>3, <1>c DEF Wait, callerVars, LoopTypeOK
<1>11. CASE TakeOver
  <2>1. InboxOK' /\ Head(inbox).req \in ScanRequest
    BY <1>11, <1>a, TakenInbox DEF TakeOver, NewWhileBusy
  <2>2. pending' \in Seq(ScanRequest)
    BY <1>11, <2>1, CoveredByShort DEF TakeOver
  <2>3. RunOK'
    BY <1>11, <2>2, <1>a DEF TakeOver, NewWhileBusy, Stopping, RunOK
  <2>4. QED  BY <1>11, <2>1, <2>3, <1>c DEF TakeOver, callerVars, LoopTypeOK
<1>12. CASE Stop
  <2>1. InboxOK'
    BY <1>12, <1>a, TakenInbox DEF Stop
  <2>2. pending' \in Seq(ScanRequest)
    BY <1>12 DEF Stop
  <2>3. RunOK'
    BY <1>12, <2>2, <1>a DEF Stop, Stopping, RunOK
  <2>4. QED  BY <1>12, <2>1, <2>3, <1>c DEF Stop, callerVars, LoopTypeOK
<1>13. CASE RunEnds
  <2>1. RunOK'
    BY <1>13, <1>a DEF RunEnds, RunOK
  <2>2. QED  BY <1>13, <2>1, <1>c, <1>d DEF RunEnds, callerVars, LoopTypeOK
<1>14. CASE Done
  <2>1. ASSUME pending # <<>>, ~paused PROVE RunOK'
    <3>1. active' \in ScanRequest /\ pending' \in Seq(ScanRequest)
      BY <1>14, <2>1, DoneRuns
    <3>2. activeRun' = "running" /\ cancelled' = FALSE /\ state' = "running"
      BY <1>14, <2>1 DEF Done, StartRun
    <3>3. QED  BY <3>1, <3>2, <1>b DEF RunOK
  <2>2. ASSUME pending = <<>> \/ paused PROVE RunOK'
    <3>1. /\ activeRun' = "none" /\ active' = NoRequest /\ cancelled' = FALSE /\ pending' = pending
          /\ state' = IF pending = <<>> THEN "idle" ELSE state
      BY <1>14, <2>2 DEF Done
    <3>2. QED  BY <3>1, <1>a DEF RunOK
  <2>3. RunOK'
    BY <2>1, <2>2
  <2>4. QED  BY <1>14, <2>3, <1>c, <1>d DEF Done, callerVars, LoopTypeOK
<1>15. QED
  BY <1>1, <1>2, <1>3, <1>4, <1>5, <1>6, <1>7, <1>8, <1>9, <1>10, <1>11, <1>12, <1>13, <1>14
  DEF LoopNext, Loop

\* The command loop keeps its channel within its capacity, knows the request of
\* its run and never shows idle during a run, whatever is asked and in whatever
\* order (scanner.go 183-312).
THEOREM CommandsTypeCorrect == LoopSpec => []LoopTypeOK
<1>1. LoopInit => LoopTypeOK
  BY InitTypeOK
<1>2. LoopTypeOK /\ [LoopNext]_loopVars => LoopTypeOK'
  BY StepTypeOK
<1>3. QED  BY <1>1, <1>2, PTL DEF LoopSpec
-----------------------------------------------------------------------------
(* The promise *)

LEMMA InitPromises == LoopInit => Promise!Init
<1> SUFFICES ASSUME LoopInit PROVE Promise!Init
  OBVIOUS
<1>1. inbox = <<>> /\ pending = <<>> /\ activeRun = "none" /\ cancelled = FALSE /\ paused = FALSE
  BY DEF LoopInit
<1>2. OfferedAll(inbox) = <<>>
  <2>1. DOMAIN inbox = {}
    BY <1>1
  <2>2. OfferedAll(inbox) = [i \in {} |-> Offered(inbox[i])]
    BY <2>1 DEF OfferedAll
  <2>3. OfferedAll(inbox) \in Seq({}) /\ Len(OfferedAll(inbox)) = 0
    BY <2>2
  <2>4. QED  BY <2>3
<1>3. Owed = {}
  BY <1>1 DEF Owed, CoveredBy
<1>4. QED
  BY <1>1, <1>2, <1>3 DEF Promise!Init

\* What a step that takes a command does to the channel, as the promise sees it.
LEMMA TakenPromise ==
    ASSUME InboxOK, NEW k, Take(k)
    PROVE  /\ Promise!Take(k)
           /\ Promise!Asked = Offered(Head(inbox))
           /\ Promise!Asked.units = IF k = "start" THEN Covers(Head(inbox).req) ELSE {}
           /\ k = "start" => Promise!Asked.auto = Head(inbox).req.auto
<1>1. /\ Head(inbox).kind = k
      /\ k = "start" => Head(inbox).req \in ScanRequest
      /\ OfferedAll(inbox) # <<>>
      /\ Head(OfferedAll(inbox)) = Offered(Head(inbox))
      /\ OfferedAll(inbox') = Tail(OfferedAll(inbox))
  BY TakenInbox
<1>2. Promise!Asked = Offered(Head(inbox))
  BY <1>1 DEF Promise!Asked
<1>3. /\ Promise!Asked.kind = k
      /\ Promise!Asked.units = IF k = "start" THEN Covers(Head(inbox).req) ELSE {}
  BY <1>1, <1>2 DEF Offered
<1>4. k = "start" => Promise!Asked.auto = Head(inbox).req.auto
  BY <1>1, <1>2, RequestFields DEF Offered
<1>5. Promise!Take(k)
  BY <1>1, <1>3 DEF Promise!Take
<1>6. QED  BY <1>2, <1>3, <1>4, <1>5

LEMMA StepPromises ==
    ASSUME LoopTypeOK, [LoopNext]_loopVars
    PROVE  [Promise!Next]_(Promise!vars)
<1>a. CallersOK /\ InboxOK /\ RunOK
  BY DEF LoopTypeOK
<1>b. Request \subseteq ScanRequest /\ ResumeRequest \in ScanRequest /\ NoRequest \notin ScanRequest
  BY ConstantsAssumption DEF ConstantsAssumption
<1>1. CASE UNCHANGED loopVars
  BY <1>1 DEF loopVars, runVars, callerVars, Promise!vars, Owed
<1>2. ASSUME NEW r \in Request, Ask(r) PROVE UNCHANGED Promise!vars
  BY <1>2 DEF Ask, runVars, Promise!vars, Owed
<1>3. ASSUME NEW r \in Request, Send(r) PROVE Promise!Post
  <2>1. /\ OfferedAll(inbox') # <<>>
        /\ OfferedAll(inbox) = SubSeq(OfferedAll(inbox'), 1, Len(OfferedAll(inbox')) - 1)
    BY <1>3, <1>a, <1>b, PostedInbox DEF Send
  <2>2. QED  BY <1>3, <2>1 DEF Send, runVars, Promise!Post, Owed
<1>4. CASE RequestStop
  <2>1. /\ OfferedAll(inbox') # <<>>
        /\ OfferedAll(inbox) = SubSeq(OfferedAll(inbox'), 1, Len(OfferedAll(inbox')) - 1)
    BY <1>4, <1>a, PostedInbox DEF RequestStop
  <2>2. Promise!Post
    BY <1>4, <2>1 DEF RequestStop, runVars, Promise!Post, Owed
  <2>3. QED  BY <2>2 DEF Promise!Next
<1>5. CASE SetPause
  <2>1. Promise!Toggle
    BY <1>5 DEF SetPause, runVars, Promise!Toggle, Owed
  <2>2. QED  BY <2>1 DEF Promise!Next
<1>6. CASE PauseCalls
  <2>1. owesCall = "start" \/ owesCall = "stop"
    BY <1>6, <1>a DEF PauseCalls, CallersOK
  <2>2. /\ OfferedAll(inbox') # <<>>
        /\ OfferedAll(inbox) = SubSeq(OfferedAll(inbox'), 1, Len(OfferedAll(inbox')) - 1)
    BY <1>6, <1>a, <1>b, <2>1, PostedInbox DEF PauseCalls
  <2>3. Promise!Post
    BY <1>6, <2>2 DEF PauseCalls, runVars, Promise!Post, Owed
  <2>4. QED  BY <2>3 DEF Promise!Next
<1>7. CASE Refuse
  <2>1. Promise!Take("start")
    BY <1>7, <1>a, TakenPromise DEF Refuse
  <2>2. Promise!Refuse
    BY <1>7, <2>1 DEF Refuse, runVars, callerVars, Promise!Refuse, Owed
  <2>3. QED  BY <2>2 DEF Promise!Next
<1>8. CASE StartIdle
  <2>1. Promise!Take("start") /\ Promise!Asked.units = Covers(Head(inbox).req)
    BY <1>8, <1>a, TakenPromise DEF StartIdle
  <2>2. /\ active' \in ScanRequest /\ pending' \in Seq(ScanRequest)
        /\ Owed \cup Covers(Head(inbox).req) \subseteq Covers(active') \cup Owed'
    BY <1>8, StartIdleRuns
  <2>3. Covers(active') \cup Owed' \subseteq Unit
    BY <2>2, CoversUnits, CoveredByUnits DEF Owed
  <2>4. /\ activeRun = "none" /\ activeRun' = "running" /\ cancelled' = FALSE /\ ~paused /\ paused' = paused
    BY <1>8 DEF StartIdle, StartRun, callerVars
  <2>5. Promise!Begin(Owed \cup Promise!Asked.units)
    BY <2>1, <2>2, <2>3, <2>4 DEF Promise!Begin
  <2>6. Promise!BeginAsked
    BY <2>1, <2>5 DEF Promise!BeginAsked
  <2>7. QED  BY <2>6 DEF Promise!Next
<1>9. CASE Join
  <2> DEFINE r == Head(inbox).req
  <2>1. /\ Promise!Take("start") /\ Promise!Asked.units = Covers(r)
        /\ r \in ScanRequest
    BY <1>9, <1>a, TakenPromise, TakenInbox DEF Join
  <2>2. activeRun # "none" /\ active \in ScanRequest /\ pending \in Seq(ScanRequest)
    BY <1>9, <1>a DEF Join, RunOK
  <2>3. Covers(r) \subseteq Owed \cup Covers(active)
    <3>1. CASE Same(active, r)
      BY <2>1, <2>2, <3>1, SameCovers
    <3>2. ASSUME NEW i \in DOMAIN pending, Same(pending[i], r)
          PROVE  Covers(r) \subseteq Owed
      <4>1. pending[i] \in ScanRequest
        BY <2>2
      <4>2. Covers(pending[i]) = Covers(r)
        BY <2>1, <3>2, <4>1, SameCovers
      <4>3. QED  BY <4>2 DEF Owed, CoveredBy
    <3>3. QED  BY <1>9, <3>1, <3>2 DEF Join
  <2>4. Owed \subseteq Unit
    BY <2>2, CoveredByUnits DEF Owed
  <2>5. /\ UNCHANGED <<pending, active, cancelled, activeRun, paused>> /\ ~paused
    BY <1>9 DEF Join, runVars, callerVars
  <2>6. Promise!Accept
    BY <2>1, <2>2, <2>3, <2>4, <2>5 DEF Promise!Accept, Owed
  <2>7. QED  BY <2>6 DEF Promise!Next
<1>10. CASE Wait
  <2> DEFINE r == Head(inbox).req
  <2>1. /\ Promise!Take("start") /\ Promise!Asked.units = Covers(r)
        /\ r \in ScanRequest
    BY <1>10, <1>a, TakenPromise, TakenInbox DEF Wait, NewWhileBusy
  <2>2. pending \in Seq(ScanRequest) /\ pending' = Enqueued(pending, r)
    BY <1>10, <1>a DEF Wait, RunOK
  <2>3. pending' \in Seq(ScanRequest) /\ Owed \cup Covers(r) \subseteq Owed'
    BY <2>1, <2>2, EnqueuedCovers DEF Owed
  <2>4. Owed' \subseteq Unit
    BY <2>3, CoveredByUnits DEF Owed
  <2>5. /\ UNCHANGED <<active, cancelled, activeRun, paused>> /\ ~paused
    BY <1>10 DEF Wait, NewWhileBusy, runVars, callerVars
  <2>6. Promise!Accept
    BY <2>1, <2>3, <2>4, <2>5 DEF Promise!Accept
  <2>7. QED  BY <2>6 DEF Promise!Next
<1>11. CASE TakeOver
  <2> DEFINE r == Head(inbox).req
  <2>1. /\ Promise!Take("start") /\ Promise!Asked.units = Covers(r)
        /\ Promise!Asked.auto = r.auto /\ r \in ScanRequest
    BY <1>11, <1>a, TakenPromise, TakenInbox DEF TakeOver, NewWhileBusy
  <2>2. Owed' = Covers(r)
    BY <1>11, <2>1, CoveredByShort DEF TakeOver, Owed
  <2>3. /\ UNCHANGED <<active, activeRun, paused>> /\ ~paused /\ ~r.auto /\ cancelled' = TRUE
    BY <1>11 DEF TakeOver, NewWhileBusy, callerVars
  <2>4. Promise!Replace
    BY <2>1, <2>2, <2>3 DEF Promise!Replace
  <2>5. QED  BY <2>4 DEF Promise!Next
<1>12. CASE Stop
  <2>1. Promise!Take("stop")
    BY <1>12, <1>a, TakenPromise DEF Stop
  <2>2. Owed' = {}
    BY <1>12 DEF Stop, Owed, CoveredBy
  <2>3. UNCHANGED <<active, activeRun, paused>> /\ cancelled' \in {cancelled, TRUE}
    BY <1>12 DEF Stop, callerVars
  <2>4. Promise!Drop
    BY <2>1, <2>2, <2>3 DEF Promise!Drop
  <2>5. QED  BY <2>4 DEF Promise!Next
<1>13. CASE RunEnds
  <2>1. Promise!End
    BY <1>13 DEF RunEnds, callerVars, Promise!End, Owed
  <2>2. QED  BY <2>1 DEF Promise!Next
<1>14. CASE Done
  <2>1. activeRun = "ended" /\ UNCHANGED <<inbox, paused>>
    BY <1>14 DEF Done, callerVars
  <2>2. ASSUME pending # <<>>, ~paused PROVE Promise!BeginOwed
    <3>1. /\ active' \in ScanRequest /\ pending' \in Seq(ScanRequest)
          /\ Owed = Covers(active') \cup Owed'
      BY <1>14, <2>2, DoneRuns
    <3>2. Covers(active') \cup Owed' \subseteq Unit
      BY <3>1, CoversUnits, CoveredByUnits DEF Owed
    <3>3. activeRun' = "running" /\ cancelled' = FALSE
      BY <1>14, <2>2 DEF Done, StartRun
    <3>4. Promise!Begin(Owed)
      BY <2>1, <2>2, <3>1, <3>2, <3>3 DEF Promise!Begin
    <3>5. QED  BY <2>1, <3>4 DEF Promise!BeginOwed
  <2>3. ASSUME pending = <<>> \/ paused PROVE Promise!Settle
    <3>1. activeRun' = "none" /\ cancelled' = FALSE /\ pending' = pending
      BY <1>14, <2>3 DEF Done
    <3>2. QED  BY <2>1, <3>1 DEF Promise!Settle, Owed
  <2>4. QED  BY <2>2, <2>3 DEF Promise!Next
<1>15. QED
  BY <1>1, <1>2, <1>3, <1>4, <1>5, <1>6, <1>7, <1>8, <1>9, <1>10, <1>11, <1>12, <1>13, <1>14
  DEF LoopNext, Loop, Promise!Next

\* The command loop implements ScanPromise for any requests: every place a taken
\* request asks for is covered by the present run or stays owed, however requests
\* are coalesced; only a stop or a manual start drops what waits; runs never
\* overlap and none starts during a debug pause (scanner.go 314-447).
THEOREM LoopKeepsPromise == LoopSpec => KeepsPromise
<1>1. LoopSpec => []LoopTypeOK
  BY CommandsTypeCorrect
<1>2. LoopInit => Promise!Init
  BY InitPromises
<1>3. LoopTypeOK /\ [LoopNext]_loopVars => [Promise!Next]_(Promise!vars)
  BY StepPromises
<1>4. QED
  BY <1>1, <1>2, <1>3, PTL DEF LoopSpec, KeepsPromise, Promise!Spec

-----------------------------------------------------------------------------
(* Wake-ups *)

StartIn(q) == \E i \in DOMAIN q : q[i].kind = "start"

\* What is posted comes behind what is there.
LEMMA PostedStarts ==
    ASSUME InboxOK, NEW k, NEW r, Post(k, r)
    PROVE  /\ StartIn(inbox) => StartIn(inbox')
           /\ k = "start" => StartIn(inbox')
<1> DEFINE n == Len(inbox)
           cmd == [kind |-> k, req |-> r]
<1>1. inbox \in Seq(Command) /\ inbox' = Append(inbox, cmd)
  BY DEF InboxOK, Command, Post
<1> HIDE DEF cmd
<1>2. /\ n \in Nat /\ DOMAIN inbox = 1..n /\ DOMAIN inbox' = 1..(n + 1)
      /\ \A i \in 1..n : inbox'[i] = inbox[i]
      /\ inbox'[n + 1] = cmd
  BY <1>1
<1>3. ASSUME StartIn(inbox) PROVE StartIn(inbox')
  <2>1. PICK i \in 1..n : inbox[i].kind = "start"
    BY <1>2, <1>3 DEF StartIn
  <2>2. i \in DOMAIN inbox' /\ inbox'[i].kind = "start"
    BY <1>2, <2>1
  <2>3. QED  BY <2>2 DEF StartIn
<1>4. ASSUME k = "start" PROVE StartIn(inbox')
  <2>1. n + 1 \in DOMAIN inbox' /\ inbox'[n + 1].kind = "start"
    BY <1>2, <1>4 DEF cmd
  <2>2. QED  BY <2>1 DEF StartIn
<1>5. QED  BY <1>3, <1>4

LEMMA StepWakes ==
    ASSUME LoopTypeOK, NoLostWakeUp, [LoopNext]_loopVars
    PROVE  NoLostWakeUp'
<1>a. CallersOK /\ InboxOK /\ RunOK
  BY DEF LoopTypeOK
<1>b. StartUnderWay <=> owesCall = "start" \/ StartIn(inbox)
  BY DEF StartUnderWay, StartIn
<1>c. StartUnderWay' <=> owesCall' = "start" \/ StartIn(inbox')
  BY DEF StartUnderWay, StartIn
<1>1. ASSUME UNCHANGED <<pending, activeRun, state, paused>>, StartUnderWay => StartUnderWay'
      PROVE  NoLostWakeUp'
  BY <1>1 DEF NoLostWakeUp
<1>2. CASE UNCHANGED loopVars
  <2>1. UNCHANGED <<pending, activeRun, state, paused, owesCall, inbox>>
    BY <1>2 DEF loopVars, runVars, callerVars
  <2>2. QED  BY <1>b, <1>c, <1>1, <2>1
<1>3. ASSUME NEW r \in Request, Ask(r) PROVE NoLostWakeUp'
  <2>1. UNCHANGED <<pending, activeRun, state, paused, owesCall, inbox>>
    BY <1>3 DEF Ask, runVars
  <2>2. QED  BY <1>b, <1>c, <1>1, <2>1
<1>4. ASSUME NEW r \in Request, Send(r) PROVE NoLostWakeUp'
  <2>1. UNCHANGED <<pending, activeRun, state, paused, owesCall>> /\ Post("start", r)
    BY <1>4 DEF Send, runVars
  <2>2. QED  BY <1>a, <1>b, <1>c, <1>1, <2>1, PostedStarts
<1>5. CASE RequestStop
  <2>1. UNCHANGED <<pending, activeRun, state, paused, owesCall>> /\ Post("stop", NoRequest)
    BY <1>5 DEF RequestStop, runVars
  <2>2. QED  BY <1>a, <1>b, <1>c, <1>1, <2>1, PostedStarts
<1>6. CASE SetPause
  <2>1. /\ UNCHANGED <<pending, activeRun, state>> /\ paused' = ~paused
        /\ paused => owesCall' = "start"
    BY <1>6 DEF SetPause, runVars
  <2>2. QED  BY <1>c, <2>1 DEF NoLostWakeUp
<1>7. CASE PauseCalls
  <2>1. UNCHANGED <<pending, activeRun, state, paused>>
    BY <1>7 DEF PauseCalls, runVars
  <2>2. \E r : Post(owesCall, r)
    BY <1>7 DEF PauseCalls
  <2>3. PICK r : Post(owesCall, r)
    BY <2>2
  <2>4. StartUnderWay => StartUnderWay'
    BY <1>a, <1>b, <1>c, <2>3, PostedStarts
  <2>5. QED  BY <1>1, <2>1, <2>4
<1>8. CASE Refuse
  BY <1>8 DEF Refuse, runVars, callerVars, NoLostWakeUp
<1>9. CASE StartIdle \/ RunEnds
  BY <1>9 DEF StartIdle, StartRun, RunEnds, NoLostWakeUp
<1>10. CASE Join \/ Wait \/ TakeOver
  <2>1. activeRun # "none" /\ activeRun' = activeRun
    BY <1>10 DEF Join, Wait, TakeOver, NewWhileBusy, runVars
  <2>2. QED  BY <2>1 DEF NoLostWakeUp
<1>11. CASE Stop
  <2>1. pending' = <<>> /\ activeRun' = activeRun /\ (activeRun = "none" => state' = "idle")
    BY <1>11 DEF Stop
  <2>2. QED  BY <2>1 DEF NoLostWakeUp
<1>12. CASE Done
  <2>1. CASE pending # <<>> /\ ~paused
    BY <1>12, <2>1 DEF Done, StartRun, NoLostWakeUp
  <2>2. CASE pending = <<>> \/ paused
    <3>1. /\ pending' = pending /\ paused' = paused
          /\ state' = IF pending = <<>> THEN "idle" ELSE state
      BY <1>12, <2>2 DEF Done, callerVars
    <3>2. state # "idle"
      BY <1>a, <1>12 DEF Done, RunOK
    <3>3. QED  BY <2>2, <3>1, <3>2 DEF NoLostWakeUp
  <2>3. QED  BY <2>1, <2>2
<1>13. QED
  BY <1>2, <1>3, <1>4, <1>5, <1>6, <1>7, <1>8, <1>9, <1>10, <1>11, <1>12 DEF LoopNext, Loop

\* No request is left behind and no caller is told of work that nobody does: with
\* no run, requests wait only during a debug pause or for the start that its end
\* owes them, and the status is idle exactly when none waits (the loop of
\* scanner.go 362-447 and updateDebugSettings, in any order of their steps).
THEOREM NobodyIsForgotten == LoopSpec => []NoLostWakeUp
<1>1. LoopInit => NoLostWakeUp
  BY DEF LoopInit, NoLostWakeUp
<1>2. LoopTypeOK /\ NoLostWakeUp /\ [LoopNext]_loopVars => NoLostWakeUp'
  BY StepWakes
<1>3. QED
  BY <1>1, <1>2, CommandsTypeCorrect, PTL DEF LoopSpec

-----------------------------------------------------------------------------
(* A scan run                                                              *)

Kinds == {"none", "media", "metadata", "nested", "paths", "reconcile"}
RunType == [kind : Kinds, roots : SUBSET Root, phase : {"idle", "walk", "mark", "finish"},
            todo : SUBSET (Root \cup Path), entries : SUBSET Path, condemned : SUBSET Path,
            writes : SUBSET (Path \X (1 .. MaxVersion)), seen : SUBSET Path, before : SUBSET Path,
            failed : SUBSET Root, errs : BOOLEAN, deferred : SUBSET Path, steady : SUBSET Path]

RunTyped == run \in RunType
SourceTyped == disk \in [Path -> 0 .. MaxVersion] /\ up \subseteq Root
HealthTyped == entry \in [Root -> {"none", "up", "down"}] /\ mark \subseteq Root
RowsTyped == row \in [Path -> {"none", "live", "missing", "deleted"}] /\ ver \in [Path -> 0 .. MaxVersion]
AskedTyped == asked \in [roots : SUBSET Root, nested : SUBSET Root, paths : SUBSET Path]
WatchTyped == outbound \in [Path -> {"none", "upsert", "remove"}] /\ recover \subseteq Root
SetsTyped == cand \cup gone \cup owed \cup lapse \cup lost \subseteq Path
LeftTyped == left \in [changes : 0 .. MaxChanges, runs : 0 .. MaxRuns, mishaps : 0 .. MaxMishaps]

Typed == RunTyped /\ SourceTyped /\ HealthTyped /\ RowsTyped /\ AskedTyped /\ WatchTyped /\ SetsTyped /\ LeftTyped

LEMMA TypedIsTypeOK == Typed => TypeOK
BY DEF Typed, RunTyped, SourceTyped, HealthTyped, RowsTyped, AskedTyped, WatchTyped, SetsTyped, LeftTyped,
       TypeOK, RunType, Kinds

-----------------------------------------------------------------------------
(* What the steps of a run do to its fields                                *)

Frame == run'.kind = run.kind /\ run'.before = run.before /\ run'.deferred = run.deferred
Place == run'.todo = run.todo /\ run'.entries = run.entries /\ run'.condemned = run.condemned
         /\ run'.writes = run.writes /\ run'.phase = run.phase

\* Names were found under r, all of them or after an error some.
WalkedRoot(r) ==
    /\ Frame /\ run'.todo = run.todo \ {r} /\ run'.condemned = run.condemned /\ run'.writes = run.writes
    /\ run'.phase = run.phase /\ run'.seen = run.seen /\ run'.steady = run.steady
    /\ run.entries \subseteq run'.entries
    /\ \/ /\ run'.failed = run.failed /\ run'.errs = run.errs
          /\ \A p \in Path : RootOf[p] = r /\ disk[p] # 0 /\ (run.kind = "nested" => p \notin Direct)
                               => p \in run'.entries
       \/ run'.failed = run.failed \cup {r} /\ run'.errs = TRUE

SubmittedPath(p) ==
    /\ Frame /\ run'.todo = run.todo \ {p} /\ run'.writes = run.writes /\ run'.phase = run.phase
    /\ run'.seen = run.seen /\ run'.steady = run.steady /\ run'.failed = run.failed
    /\ run.entries \subseteq run'.entries /\ (run.errs => run'.errs)
    /\ run'.condemned \subseteq run.condemned \cup {p} /\ (p \in run'.condemned \ run.condemned => disk[p] = 0)

DeletedAbsent(p) ==
    /\ Frame /\ run'.todo = run.todo /\ run'.entries = run.entries /\ run'.writes = run.writes
    /\ run'.phase = run.phase /\ run'.seen = run.seen /\ run'.failed = run.failed /\ run'.errs = run.errs
    /\ run'.condemned = run.condemned \ {p} /\ run'.steady = run.steady \ {p}

Examined(p) ==
    /\ Frame /\ run'.todo = run.todo /\ run'.condemned = run.condemned /\ run'.phase = run.phase
    /\ run'.failed = run.failed /\ run'.entries = run.entries \ {p} /\ (run.errs => run'.errs)
    /\ \/ /\ run'.errs /\ run'.steady = run.steady \ {p} /\ p \in lapse'
          /\ run'.seen = run.seen /\ run'.writes = run.writes
       \/ /\ disk[p] = 0 /\ run'.steady = run.steady /\ run'.seen = run.seen /\ run'.writes = run.writes
       \/ /\ row[p] = "live" /\ ver[p] = disk[p] /\ run.kind # "paths"
          /\ run'.seen = run.seen \cup {p} /\ run'.writes = run.writes /\ run'.steady = run.steady
       \/ /\ run'.writes = run.writes \cup {<<p, disk[p]>>} /\ disk[p] \in 1 .. MaxVersion
          /\ run'.seen = run.seen /\ run'.steady = run.steady

Wrote(p, v) ==
    /\ run'.kind = run.kind /\ run'.before = run.before
    /\ run'.todo = run.todo /\ run'.condemned = run.condemned /\ run'.phase = run.phase
    /\ run'.failed = run.failed /\ run'.entries = run.entries /\ (run.errs => run'.errs)
    /\ run'.writes = run.writes \ {<<p, v>>}
    /\ \/ /\ run'.errs /\ run'.steady = run.steady \ {p} /\ p \in lapse'
          /\ run'.seen \in {run.seen, run.seen \cup {p}} /\ run'.deferred = run.deferred
          /\ UNCHANGED <<row, ver, owed>>
       \/ /\ run'.errs /\ run'.steady = run.steady /\ run'.seen = run.seen \cup {p}
          /\ run'.deferred = run.deferred /\ UNCHANGED <<row, ver, owed>>
       \/ /\ row' = [row EXCEPT ![p] = "live"] /\ ver' = [ver EXCEPT ![p] = v]
          /\ run'.steady = run.steady /\ run'.seen = run.seen \cup {p}
          /\ \/ run'.deferred = run.deferred /\ owed' \subseteq owed
             \/ Defers /\ run'.deferred = run.deferred \cup {p} /\ owed' = owed \cup {p}

LookedUp(p) ==
    /\ Frame /\ run'.todo = run.todo \ {p} /\ run'.entries = run.entries /\ run'.condemned = run.condemned
    /\ run'.writes = run.writes /\ run'.phase = run.phase /\ run'.failed = run.failed
    /\ run'.errs = run.errs /\ run'.steady = run.steady
    /\ run'.seen = IF disk[p] = 0 THEN run.seen ELSE run.seen \cup {p}

PhaseMoved ==
    /\ Frame /\ run'.todo = run.todo /\ run'.entries = run.entries /\ run'.condemned = run.condemned
    /\ run'.writes = run.writes /\ run'.failed = run.failed /\ run'.seen = run.seen /\ run'.steady = run.steady
    /\ (run.errs => run'.errs)

\* Files are no longer steady; nothing else changes.
SteadyShrinks(P) ==
    /\ Frame /\ Place /\ run'.failed = run.failed /\ run'.seen = run.seen /\ run'.errs = run.errs
    /\ run'.steady = run.steady \ P

\* The run has begun.
Begun(kind, R, todo) ==
    /\ run'.kind = kind /\ run'.phase = "walk" /\ run'.todo = todo
    /\ run'.before = Live \cap Files(R) /\ run'.steady = Readable \cap Files(R)
    /\ run'.entries = {} /\ run'.condemned = {} /\ run'.writes = {} /\ run'.seen = {}
    /\ run'.failed = {} /\ run'.errs = FALSE /\ run'.deferred = {}

LEMMA NoRunTyped == NoRun \in RunType
BY DEF NoRun, RunType, Kinds

LEMMA WalkEffect ==
    ASSUME Typed, NEW r \in Root, WalkRoot(r)
    PROVE  RunTyped' /\ WalkedRoot(r)
<1>. DEFINE there == {p \in Present \cap Files({r}) : run.kind = "nested" => p \notin Direct}
<1>1. run \in RunType /\ there \subseteq Path BY DEF Typed, RunTyped, Present, Files
<1>2. CASE run' = [run EXCEPT !.todo = @ \ {r}, !.entries = @ \cup there]
  <2>1. run' \in RunType BY <1>1, <1>2 DEF RunType
  <2>. QED BY <1>1, <1>2, <2>1 DEF RunTyped, RunType, WalkedRoot, Frame, Present, Files
<1>3. ASSUME NEW some \in SUBSET there,
             run' = [run EXCEPT !.todo = @ \ {r}, !.entries = @ \cup some,
                                !.failed = @ \cup {r}, !.errs = TRUE]
      PROVE  RunTyped' /\ WalkedRoot(r)
  <2>1. run' \in RunType BY <1>1, <1>3 DEF RunType
  <2>. QED BY <1>1, <1>3, <2>1 DEF RunTyped, RunType, WalkedRoot, Frame
<1>. QED BY <1>2, <1>3 DEF WalkRoot

LEMMA SubmitEffect ==
    ASSUME Typed, NEW p \in Path, SubmitPath(p)
    PROVE  RunTyped' /\ SubmittedPath(p)
<1>. DEFINE rest == [run EXCEPT !.todo = @ \ {p}]
<1>1. run \in RunType /\ rest \in RunType BY DEF Typed, RunTyped, RunType
<1>2. /\ rest.kind = run.kind /\ rest.before = run.before /\ rest.deferred = run.deferred
      /\ rest.todo = run.todo \ {p} /\ rest.writes = run.writes /\ rest.phase = run.phase
      /\ rest.seen = run.seen /\ rest.steady = run.steady /\ rest.failed = run.failed
      /\ rest.entries = run.entries /\ rest.errs = run.errs /\ rest.condemned = run.condemned
  BY <1>1 DEF RunType
<1>. HIDE DEF rest
<1>3. CASE run' = [rest EXCEPT !.errs = TRUE]
  <2>1. run' \in RunType BY <1>1, <1>3 DEF RunType
  <2>. QED BY <1>1, <1>2, <1>3, <2>1 DEF RunTyped, RunType, SubmittedPath, Frame
<1>4. CASE disk[p] = 0 /\ run' = [rest EXCEPT !.condemned = @ \cup {p}]
  <2>1. run' \in RunType BY <1>1, <1>4 DEF RunType
  <2>. QED BY <1>1, <1>2, <1>4, <2>1 DEF RunTyped, RunType, SubmittedPath, Frame
<1>5. CASE run' = [rest EXCEPT !.entries = @ \cup {p}]
  <2>1. run' \in RunType BY <1>1, <1>5 DEF RunType
  <2>. QED BY <1>1, <1>2, <1>5, <2>1 DEF RunTyped, RunType, SubmittedPath, Frame
<1>. QED BY <1>3, <1>4, <1>5 DEF SubmitPath, rest

LEMMA DeleteEffect ==
    ASSUME Typed, NEW p \in Path, DeleteAbsent(p)
    PROVE  RunTyped' /\ DeletedAbsent(p)
<1>1. run \in RunType /\ run' = [run EXCEPT !.condemned = @ \ {p}, !.steady = @ \ {p}]
  BY DEF Typed, RunTyped, DeleteAbsent
<1>2. run' \in RunType BY <1>1 DEF RunType
<1>. QED BY <1>1, <1>2 DEF RunTyped, RunType, DeletedAbsent, Frame

LEMMA ExamineEffect ==
    ASSUME Typed, NEW p \in Path, Examine(p)
    PROVE  RunTyped' /\ Examined(p)
<1>. DEFINE rest == [run EXCEPT !.entries = @ \ {p}]
<1>1. run \in RunType /\ rest \in RunType BY DEF Typed, RunTyped, RunType
<1>2. /\ rest.kind = run.kind /\ rest.before = run.before /\ rest.deferred = run.deferred
      /\ rest.todo = run.todo /\ rest.writes = run.writes /\ rest.phase = run.phase
      /\ rest.seen = run.seen /\ rest.steady = run.steady /\ rest.failed = run.failed
      /\ rest.entries = run.entries \ {p} /\ rest.errs = run.errs /\ rest.condemned = run.condemned
  BY <1>1 DEF RunType
<1>. HIDE DEF rest
<1>3. CASE run' = [rest EXCEPT !.errs = TRUE, !.steady = @ \ {p}] /\ lapse' = lapse \cup {p}
  <2>1. run' \in RunType BY <1>1, <1>3 DEF RunType
  <2>. QED BY <1>1, <1>2, <1>3, <2>1 DEF RunTyped, RunType, Examined, Frame
<1>4. CASE disk[p] = 0 /\ run' \in {rest, [rest EXCEPT !.errs = TRUE]}
  <2>1. run' \in RunType BY ZenonT(40), <1>1, <1>4 DEF RunType
  <2>. QED BY <1>1, <1>2, <1>4, <2>1 DEF RunTyped, RunType, Examined, Frame
<1>5. CASE /\ row[p] = "live" /\ ver[p] = disk[p] /\ run.kind # "paths"
           /\ run' = [rest EXCEPT !.seen = @ \cup {p}]
  <2>1. run' \in RunType BY <1>1, <1>5 DEF RunType
  <2>. QED BY <1>1, <1>2, <1>5, <2>1 DEF RunTyped, RunType, Examined, Frame
<1>6. CASE disk[p] # 0 /\ run' = [rest EXCEPT !.writes = @ \cup {<<p, disk[p]>>}]
  <2>0. disk[p] \in 1 .. MaxVersion BY <1>6, ScanAssumption DEF Typed, SourceTyped
  <2>1. run' \in RunType BY <1>1, <1>6, <2>0 DEF RunType
  <2>. QED BY <1>1, <1>2, <1>6, <2>0, <2>1 DEF RunTyped, RunType, Examined, Frame
<1>. QED BY <1>3, <1>4, <1>5, <1>6 DEF Examine, FailsOn, Vanished, rest

LEMMA WriteEffect ==
    ASSUME Typed, NEW p \in Path, NEW v \in 1 .. MaxVersion, Write(p, v)
    PROVE  RunTyped' /\ Wrote(p, v)
<1>. DEFINE rest == [run EXCEPT !.writes = @ \ {<<p, v>>}]
            saw == [rest EXCEPT !.seen = @ \cup {p}]
<1>1. run \in RunType BY DEF Typed, RunTyped
<1>2. rest \in RunType BY <1>1 DEF RunType
<1>3. /\ rest.kind = run.kind /\ rest.before = run.before /\ rest.deferred = run.deferred
      /\ rest.todo = run.todo /\ rest.writes = run.writes \ {<<p, v>>} /\ rest.phase = run.phase
      /\ rest.seen = run.seen /\ rest.steady = run.steady /\ rest.failed = run.failed
      /\ rest.entries = run.entries /\ rest.errs = run.errs /\ rest.condemned = run.condemned
  BY <1>1 DEF RunType
<1>. HIDE DEF rest
<1>4. saw \in RunType BY <1>2 DEF RunType
<1>5. /\ saw.kind = run.kind /\ saw.before = run.before /\ saw.deferred = run.deferred
      /\ saw.todo = run.todo /\ saw.writes = run.writes \ {<<p, v>>} /\ saw.phase = run.phase
      /\ saw.seen = run.seen \cup {p} /\ saw.steady = run.steady /\ saw.failed = run.failed
      /\ saw.entries = run.entries /\ saw.errs = run.errs /\ saw.condemned = run.condemned
  BY <1>2, <1>3 DEF RunType
<1>. HIDE DEF saw
<1>6. ASSUME NEW r \in {rest, saw}, run' = [r EXCEPT !.errs = TRUE, !.steady = @ \ {p}],
             lapse' = lapse \cup {p}, UNCHANGED <<row, ver, owed>>
      PROVE  RunTyped' /\ Wrote(p, v)
  <2>1. r \in RunType /\ run' \in RunType BY <1>2, <1>4, <1>6 DEF RunType
  <2>. QED BY <1>3, <1>5, <1>6, <2>1 DEF RunTyped, RunType, Wrote
<1>7. CASE run' = [saw EXCEPT !.errs = TRUE] /\ UNCHANGED <<row, ver, owed>>
  <2>1. run' \in RunType BY <1>4, <1>7 DEF RunType
  <2>. QED BY <1>4, <1>5, <1>7, <2>1 DEF RunTyped, RunType, Wrote
<1>8. CASE /\ row' = [row EXCEPT ![p] = "live"] /\ ver' = [ver EXCEPT ![p] = v]
           /\ Defers /\ run' = [saw EXCEPT !.deferred = @ \cup {p}] /\ owed' = owed \cup {p}
  <2>1. run' \in RunType BY <1>4, <1>8 DEF RunType
  <2>. QED BY <1>4, <1>5, <1>8, <2>1 DEF RunTyped, RunType, Wrote
<1>9. CASE /\ row' = [row EXCEPT ![p] = "live"] /\ ver' = [ver EXCEPT ![p] = v]
           /\ run' = saw /\ owed' \subseteq owed
  BY <1>4, <1>5, <1>9 DEF RunTyped, RunType, Wrote
<1>. QED BY <1>6, <1>7, <1>8, <1>9 DEF Write, FailsOn, rows, rest, saw

LEMMA LookUpEffect ==
    ASSUME Typed, NEW p \in Path, LookUp(p)
    PROVE  RunTyped' /\ (run' = NoRun \/ LookedUp(p))
<1>1. run \in RunType BY DEF Typed, RunTyped
<1>2. CASE run' = NoRun BY <1>2, NoRunTyped DEF RunTyped
<1>3. CASE run' = [run EXCEPT !.todo = @ \ {p}, !.seen = IF disk[p] = 0 THEN @ ELSE @ \cup {p}]
  <2>1. run' \in RunType BY <1>1, <1>3 DEF RunType
  <2>. QED BY <1>1, <1>3, <2>1 DEF RunTyped, RunType, LookedUp, Frame
<1>. QED BY <1>2, <1>3 DEF LookUp

LEMMA PhaseEffect ==
    ASSUME Typed, DrainRun \/ MarkMissing
    PROVE  /\ RunTyped' /\ PhaseMoved
           /\ DrainRun => /\ Drained /\ run'.phase \in {"mark", "finish"}
                          /\ run'.phase = "mark" => run.kind # "paths"
           /\ MarkMissing => /\ run'.phase = "finish"
                             /\ row' = row => (MissingPaths \cap Live = {} \/ run'.errs)
<1>1. run \in RunType BY DEF Typed, RunTyped
<1>2. CASE DrainRun
  <2>1. PICK f \in {"mark", "finish"} : run' = [run EXCEPT !.phase = f] /\ (f = "mark" => run.kind # "paths")
    BY <1>2 DEF DrainRun
  <2>2. run' \in RunType BY <1>1, <2>1 DEF RunType
  <2>3. run'.phase = f BY <1>1, <2>1 DEF RunType
  <2>4. PhaseMoved BY <1>1, <2>1 DEF RunType, PhaseMoved, Frame
  <2>5. ~MarkMissing BY <1>2 DEF DrainRun, MarkMissing
  <2>. QED BY <1>2, <2>1, <2>2, <2>3, <2>4, <2>5 DEF RunTyped, DrainRun
<1>3. CASE MarkMissing
  <2>0. ~DrainRun BY <1>3 DEF DrainRun, MarkMissing
  <2>1. CASE run' = [run EXCEPT !.phase = "finish"] /\ row' = Hidden(MissingPaths, "missing")
    <3>1. run' \in RunType /\ run'.phase = "finish" /\ PhaseMoved
      BY <1>1, <2>1 DEF RunType, PhaseMoved, Frame
    <3>2. row' = row => MissingPaths \cap Live = {}
      BY <2>1 DEF Hidden, Live, MissingPaths
    <3>. QED BY <2>0, <3>1, <3>2 DEF RunTyped
  <2>2. CASE run' = [run EXCEPT !.phase = "finish", !.errs = TRUE]
    <3>1. run' \in RunType /\ run'.phase = "finish" /\ PhaseMoved /\ run'.errs
      BY <1>1, <2>2 DEF RunType, PhaseMoved, Frame
    <3>. QED BY <2>0, <3>1 DEF RunTyped
  <2>. QED BY <1>3, <2>1, <2>2 DEF MarkMissing
<1>. QED BY <1>2, <1>3

LEMMA UnsteadyEffect ==
    ASSUME Typed, NEW P, Unsteady(P)
    PROVE  RunTyped' /\ SteadyShrinks(P)
<1>1. run \in RunType /\ run' = [run EXCEPT !.steady = @ \ P] BY DEF Typed, RunTyped, Unsteady
<1>2. run' \in RunType BY <1>1 DEF RunType
<1>. QED BY <1>1, <1>2 DEF RunTyped, RunType, SteadyShrinks, Frame, Place

LEMMA VisitEffect ==
    ASSUME Typed, NEW kind \in {"media", "metadata", "nested", "paths", "reconcile"}, NEW R \in SUBSET Root,
           NEW todo \in SUBSET (Root \cup Path), BeginVisit(kind, R, todo)
    PROVE  RunTyped' /\ (run' = NoRun \/ Begun(kind, R, todo))
<1>1. CASE run' = NoRun BY <1>1, NoRunTyped DEF RunTyped
<1>2. CASE run' = [NoRun EXCEPT !.kind = kind, !.roots = R, !.phase = "walk", !.todo = todo,
                              !.before = Live \cap Files(R), !.steady = Readable \cap Files(R)]
  <2>1. Live \cap Files(R) \in SUBSET Path /\ Readable \cap Files(R) \in SUBSET Path BY DEF Live, Files
  <2>. DEFINE b == Live \cap Files(R)
              s == Readable \cap Files(R)
  <2>2. b \in SUBSET Path /\ s \in SUBSET Path BY <2>1
  <2>. HIDE DEF b, s
  <2>3. run' = [NoRun EXCEPT !.kind = kind, !.roots = R, !.phase = "walk", !.todo = todo,
                             !.before = b, !.steady = s] BY <1>2 DEF b, s
  <2>4. run' \in RunType BY <2>2, <2>3 DEF RunType, NoRun, Kinds
  <2>5. /\ run'.kind = kind /\ run'.phase = "walk" /\ run'.todo = todo /\ run'.before = b /\ run'.steady = s
        /\ run'.entries = {} /\ run'.condemned = {} /\ run'.writes = {} /\ run'.seen = {}
        /\ run'.failed = {} /\ run'.errs = FALSE /\ run'.deferred = {}
    BY <2>3 DEF NoRun
  <2>. QED BY <2>4, <2>5 DEF RunTyped, Begun, b, s
<1>. QED BY <1>1, <1>2 DEF BeginVisit, Begin

-----------------------------------------------------------------------------
(* Types                                                                   *)

LEMMA SpendTyped ==
    ASSUME LeftTyped, NEW what \in {"changes", "runs", "mishaps"}, Spend(what)
    PROVE  LeftTyped'
BY ScanAssumption DEF LeftTyped, Spend

\* What a step that may spend a mishap leaves of them.
LEMMA MishapsLeft ==
    ASSUME LeftTyped, NEW used \in BOOLEAN, used => left.mishaps > 0
    PROVE  (IF used THEN left.mishaps - 1 ELSE left.mishaps) \in 0 .. MaxMishaps
<1>1. left.mishaps \in 0 .. MaxMishaps BY DEF LeftTyped
<1>. QED BY <1>1, ScanAssumption

LEMMA LeftRuns ==
    ASSUME LeftTyped, left.runs > 0, NEW m \in 0 .. MaxMishaps,
           left' = [left EXCEPT !.runs = @ - 1, !.mishaps = m]
    PROVE  LeftTyped'
<1>1. left.runs \in 0 .. MaxRuns BY DEF LeftTyped
<1>2. left.runs - 1 \in 0 .. MaxRuns BY <1>1, ScanAssumption
<1>. QED BY <1>2 DEF LeftTyped

LEMMA LeftChanges ==
    ASSUME LeftTyped, left.changes > 0, NEW m \in 0 .. MaxMishaps,
           left' = [left EXCEPT !.changes = @ - 1, !.mishaps = m]
    PROVE  LeftTyped'
<1>1. left.changes \in 0 .. MaxChanges BY DEF LeftTyped
<1>2. left.changes - 1 \in 0 .. MaxChanges BY <1>1, ScanAssumption
<1>. QED BY <1>2 DEF LeftTyped

LEMMA InitTyped == Init => Typed
<1>1. ASSUME Init PROVE RunTyped /\ SourceTyped /\ HealthTyped /\ RowsTyped
  BY <1>1, NoRunTyped, ScanAssumption DEF Init, RunTyped, SourceTyped, HealthTyped, RowsTyped
<1>2. ASSUME Init PROVE AskedTyped /\ WatchTyped /\ SetsTyped /\ LeftTyped
  BY <1>2, ScanAssumption DEF Init, AskedTyped, WatchTyped, SetsTyped, LeftTyped, Present
<1>. QED BY <1>1, <1>2 DEF Typed

MoreTyped == HealthTyped /\ RowsTyped /\ SetsTyped /\ LeftTyped
Others == SourceTyped /\ AskedTyped /\ WatchTyped

LEMMA VisitsTyped == ASSUME Typed, Visits PROVE Typed'
<1>0. MoreTyped /\ Others /\ RunTyped BY DEF Typed, MoreTyped, Others
<1>1. RunTyped'
  <2>1. CASE FinishRun \/ StopRun BY <2>1, NoRunTyped DEF FinishRun, StopRun, RunTyped
  <2>. QED BY <2>1, WalkEffect, SubmitEffect, DeleteEffect, ExamineEffect, WriteEffect, LookUpEffect, PhaseEffect DEF Visits
<1>2. SourceTyped' /\ AskedTyped' /\ WatchTyped'
  BY <1>0 DEF Others, SourceTyped, AskedTyped, WatchTyped, Visits, WalkRoot, SubmitPath, DeleteAbsent, Examine,
              Write, LookUp, DrainRun, MarkMissing, FinishRun, StopRun, source, watch
<1>3. LeftTyped'
  <2>1. UNCHANGED left \/ Spend("mishaps")
    BY DEF Visits, WalkRoot, SubmitPath, DeleteAbsent, Examine, Write, LookUp, DrainRun, MarkMissing, FinishRun,
           StopRun, Unless
  <2>. QED BY <1>0, <2>1, SpendTyped DEF MoreTyped, LeftTyped
<1>4. HealthTyped'
  <2>1. UNCHANGED health \/ \E r \in Root : MarkDown(r)
    BY ScanAssumption DEF Visits, WalkRoot, SubmitPath, DeleteAbsent, Examine, Write, LookUp, DrainRun, MarkMissing, FinishRun,
           StopRun
  <2>. QED BY <1>0, <2>1 DEF MoreTyped, HealthTyped, MarkDown, health
<1>5. RowsTyped'
  <2>1. CASE MarkMissing BY <1>0, <2>1 DEF MarkMissing, Hidden, MoreTyped, RowsTyped
  <2>2. CASE \E p \in Path, v \in 1 .. MaxVersion : Write(p, v)
    BY <1>0, <2>2, ScanAssumption DEF Write, MoreTyped, RowsTyped, rows
  <2>3. CASE \E p \in Path : DeleteAbsent(p) BY <1>0, <2>3 DEF DeleteAbsent, MoreTyped, RowsTyped
  <2>4. CASE UNCHANGED rows BY <1>0, <2>4 DEF rows, MoreTyped, RowsTyped
  <2>. QED BY <2>1, <2>2, <2>3, <2>4
           DEF Visits, WalkRoot, SubmitPath, Examine, LookUp, DrainRun, FinishRun, StopRun
<1>6. SetsTyped'
  <2>1. run.deferred \subseteq Path BY <1>0 DEF RunTyped, RunType
  <2>2. UNCHANGED <<cand, gone>> /\ (UNCHANGED lapse \/ \E p \in Path : lapse' = lapse \cup {p})
    BY ZenonT(40) DEF Visits, WalkRoot, SubmitPath, DeleteAbsent, Examine, FailsOn, Write, LookUp,
           DrainRun, MarkMissing, FinishRun, StopRun, watch
  <2>3. owed' \subseteq owed \/ \E p \in Path : owed' = owed \cup {p}
    BY ZenonT(40) DEF Visits, WalkRoot, SubmitPath, DeleteAbsent, Examine, Write, LookUp,
           DrainRun, MarkMissing, FinishRun, StopRun
  <2>4. UNCHANGED lost \/ lost' = lost \cup run.deferred
    BY DEF Visits, WalkRoot, SubmitPath, DeleteAbsent, Examine, Write, LookUp,
           DrainRun, MarkMissing, FinishRun, StopRun
  <2>. QED BY <1>0, <2>1, <2>2, <2>3, <2>4 DEF MoreTyped, SetsTyped
<1>. QED BY <1>1, <1>2, <1>3, <1>4, <1>5, <1>6 DEF Typed

Beginnings == BeginWholeRun \/ BeginAskedRun \/ CountRun \/ RebuildRun

\* Every run that begins does so by BeginVisit, but for those that only count or
\* rebuild.
LEMMA BeginningShapes ==
    ASSUME Typed, Beginnings
    PROVE  \/ \E kind \in {"media", "metadata", "nested"}, R \in SUBSET Root : BeginVisit(kind, R, R)
           \/ \E R \in SUBSET Root : BeginVisit("reconcile", R, Live \cap Files(R))
           \/ \E R \in SUBSET Root, P \in SUBSET Path : BeginVisit("paths", R, P)
           \/ CountRun \/ RebuildRun
<1>1. asked.roots \in SUBSET Root /\ asked.nested \in SUBSET Root /\ asked.paths \in SUBSET Path
  BY DEF Typed, AskedTyped
<1>2. {RootOf[p] : p \in asked.paths} \in SUBSET Root BY <1>1, ScanAssumption
<1>3. CASE BeginWholeRun BY <1>3 DEF BeginWholeRun
<1>4. CASE BeginAskedRun BY <1>1, <1>2, <1>4 DEF BeginAskedRun
<1>. QED BY <1>3, <1>4 DEF Beginnings

LEMMA BeginningsTyped == ASSUME Typed, Beginnings PROVE Typed'
<1>0. MoreTyped /\ Others /\ RunTyped BY DEF Typed, MoreTyped, Others
<1>1. RunTyped'
  <2>1. CASE CountRun \/ RebuildRun
    BY <2>1, NoRunTyped DEF CountRun, RebuildRun, Begin, RunTyped
  <2>2. \A R : Live \cap Files(R) \in SUBSET (Root \cup Path) BY DEF Live
  <2>. QED BY <2>1, <2>2, BeginningShapes, VisitEffect
<1>2. SourceTyped' /\ WatchTyped' BY <1>0
  DEF Others, SourceTyped, WatchTyped, source, watch, Beginnings, BeginWholeRun, BeginAskedRun, BeginVisit, CountRun, RebuildRun
<1>3. AskedTyped'
  BY <1>0 DEF Others, AskedTyped, Beginnings, BeginWholeRun, BeginAskedRun, CountRun, RebuildRun
<1>4. \E R \in SUBSET Root : \E d : Begin(R, d) /\ mark' = mark
  BY BeginningShapes DEF BeginVisit, CountRun, RebuildRun
<1>5. PICK R \in SUBSET Root : \E d : Begin(R, d) /\ mark' = mark BY <1>4
<1>6. LeftTyped'
  <2>1. PICK flaky \in BOOLEAN :
          /\ left.runs > 0 /\ (flaky => left.mishaps > 0)
          /\ left' = [left EXCEPT !.runs = @ - 1, !.mishaps = IF flaky THEN @ - 1 ELSE @]
    BY <1>5 DEF Begin
  <2>. DEFINE m == IF flaky THEN left.mishaps - 1 ELSE left.mishaps
  <2>2. m \in 0 .. MaxMishaps BY <1>0, <2>1, MishapsLeft DEF MoreTyped
  <2>3. left' = [left EXCEPT !.runs = @ - 1, !.mishaps = m] BY <2>1
  <2>. HIDE DEF m
  <2>. QED BY <1>0, <2>1, <2>2, <2>3, LeftRuns DEF MoreTyped
<1>7. HealthTyped' BY <1>0, <1>5 DEF Begin, Looked, MoreTyped, HealthTyped
<1>8. RowsTyped' /\ SetsTyped'
  BY <1>0 DEF MoreTyped, RowsTyped, SetsTyped, Beginnings, BeginWholeRun, BeginAskedRun, BeginVisit, CountRun,
              RebuildRun, rows, watch, Live
<1>. QED BY <1>1, <1>2, <1>3, <1>6, <1>7, <1>8 DEF Typed

World ==
    \/ \E r \in Root : ReadFails(r) \/ Expire(r) \/ Outage(r) \/ Returns(r)
    \/ \E p \in Path : DiskChanges(p) \/ LocalRemoved(p) \/ Promote(p) \/ Purge(p)
    \/ Supervise \/ Flush \/ WatcherRestarts

LEMMA WorldRun == ASSUME Typed, World PROVE RunTyped' /\ (run' = run \/ \E P : Unsteady(P))
<1>1. run' = run \/ \E P : Unsteady(P)
  BY DEF World, ReadFails, Expire, Outage, Returns, DiskChanges, LocalRemoved, Promote, Purge, Supervise, Flush,
         WatcherRestarts
<1>2. CASE run' = run BY <1>2 DEF Typed, RunTyped
<1>. QED BY <1>1, <1>2, UnsteadyEffect

LEMMA WorldTyped == ASSUME Typed, World PROVE Typed'
<1>0. MoreTyped /\ Others /\ RunTyped BY DEF Typed, MoreTyped, Others
<1>1. RunTyped' BY WorldRun
<1>2. SourceTyped'
  BY ZenonT(40), <1>0, ScanAssumption
     DEF Others, SourceTyped, source, World, ReadFails, Expire, Outage, Returns, DiskChanges, LocalRemoved, Promote, Purge,
         Supervise, Flush, WatcherRestarts
<1>3. AskedTyped'
  <2>1. CASE Flush
    <3>. DEFINE P == {p \in Path : outbound[p] = "upsert"}
                nested == [asked EXCEPT !.nested = @ \cup recover]
                all == [nested EXCEPT !.paths = @ \cup P]
    <3>1. nested \in [roots : SUBSET Root, nested : SUBSET Root, paths : SUBSET Path]
      BY <1>0 DEF Others, AskedTyped, WatchTyped
    <3>2. P \in SUBSET Path OBVIOUS
    <3>3. asked' \in {asked, nested, all} BY <2>1 DEF Flush
    <3>. HIDE DEF nested, P
    <3>4. all \in [roots : SUBSET Root, nested : SUBSET Root, paths : SUBSET Path] BY <3>1, <3>2
    <3>. HIDE DEF all
    <3>. QED BY <1>0, <3>1, <3>3, <3>4 DEF Others, AskedTyped
  <2>2. CASE \E p \in Path : DiskChanges(p) BY <1>0, <2>2 DEF DiskChanges, Notice, Others, AskedTyped
  <2>3. CASE UNCHANGED asked BY <1>0, <2>3 DEF Others, AskedTyped
  <2>. QED BY <2>1, <2>2, <2>3
    DEF World, ReadFails, Expire, Outage, Returns, LocalRemoved, Promote, Purge, Supervise, WatcherRestarts
<1>4. WatchTyped' /\ SetsTyped'
  <2>1. CASE \E p \in Path : DiskChanges(p)
    BY <1>0, <2>1 DEF DiskChanges, Notice, Others, WatchTyped, MoreTyped, SetsTyped
  <2>2. CASE \E p \in Path : Promote(p)
    BY <1>0, <2>2 DEF Promote, Others, WatchTyped, MoreTyped, SetsTyped
  <2>3. CASE Flush BY <1>0, <2>3 DEF Flush, Others, WatchTyped, MoreTyped, SetsTyped
  <2>4. CASE ~Flush /\ ~(\E p \in Path : DiskChanges(p) \/ Promote(p))
    BY <1>0, <2>4 DEF Others, WatchTyped, MoreTyped, SetsTyped, watch, World, ReadFails, Expire, Outage, Returns,
                      LocalRemoved, Purge, Supervise, WatcherRestarts
  <2>. QED BY <2>1, <2>2, <2>3, <2>4
<1>5. LeftTyped'
  <2>1. CASE UNCHANGED left BY <1>0, <2>1 DEF MoreTyped, LeftTyped
  <2>2. CASE Spend("mishaps") BY <1>0, <2>2, SpendTyped DEF MoreTyped
  <2>3. CASE \E p \in Path : DiskChanges(p)
    <3>1. PICK heard \in BOOLEAN :
            /\ left.changes > 0 /\ (heard \/ left.mishaps > 0)
            /\ left' = [left EXCEPT !.changes = @ - 1, !.mishaps = IF heard THEN @ ELSE @ - 1]
      BY <2>3 DEF DiskChanges
    <3>. DEFINE used == ~heard
                m == IF used THEN left.mishaps - 1 ELSE left.mishaps
    <3>2. m \in 0 .. MaxMishaps
      <4>1. used \in BOOLEAN /\ (used => left.mishaps > 0) BY <3>1
      <4>. HIDE DEF used
      <4>. QED BY <1>0, <4>1, MishapsLeft DEF MoreTyped
    <3>3. left' = [left EXCEPT !.changes = @ - 1, !.mishaps = m] BY <3>1
    <3>. HIDE DEF m
    <3>. QED BY <1>0, <3>1, <3>2, <3>3, LeftChanges DEF MoreTyped
  <2>. QED BY <2>1, <2>2, <2>3
    DEF World, ReadFails, Expire, Outage, Returns, LocalRemoved, Promote, Purge, Supervise, Flush, WatcherRestarts
<1>6. HealthTyped'
  <2>1. CASE UNCHANGED health BY <1>0, <2>1 DEF MoreTyped, HealthTyped, health
  <2>2. CASE \E r \in Root : ReadFails(r) \/ Expire(r)
    BY <1>0, <2>2 DEF ReadFails, Expire, MarkDown, MoreTyped, HealthTyped
  <2>3. CASE \E p \in Path : LocalRemoved(p)
    BY <1>0, <2>3, ScanAssumption DEF LocalRemoved, Looked, MoreTyped, HealthTyped
  <2>. QED BY <2>1, <2>2, <2>3
           DEF World, Outage, Returns, DiskChanges, Promote, Purge, Supervise, Flush, WatcherRestarts
<1>7. RowsTyped'
  <2>1. CASE \E P : row' \in {row, Hidden(P, "missing"), Hidden(P, "deleted")} /\ UNCHANGED ver
    BY <1>0, <2>1 DEF Hidden, MoreTyped, RowsTyped
  <2>2. CASE \E p \in Path : Purge(p) BY <1>0, <2>2, ScanAssumption DEF Purge, MoreTyped, RowsTyped
  <2>3. CASE UNCHANGED rows BY <1>0, <2>3 DEF rows, MoreTyped, RowsTyped
  <2>4. CASE Flush BY <2>1, <2>4 DEF Flush
  <2>5. CASE \E p \in Path : LocalRemoved(p)
    <3>1. PICK p \in Path : LocalRemoved(p) BY <2>5
    <3>2. row' \in {row, Hidden({p}, "deleted")} /\ UNCHANGED ver BY <3>1 DEF LocalRemoved
    <3>. QED BY <2>1, <3>2
  <2>. QED BY <2>2, <2>3, <2>4, <2>5
           DEF World, ReadFails, Expire, Outage, Returns, DiskChanges, Promote, Supervise, WatcherRestarts
<1>. QED BY <1>1, <1>2, <1>3, <1>4, <1>5, <1>6, <1>7 DEF Typed

LEMMA NextTyped == Typed /\ [Next]_vars => Typed'
<1>1. ASSUME Typed, UNCHANGED vars PROVE Typed'
  BY <1>1 DEF vars, source, health, rows, watch, Typed, RunTyped, SourceTyped, HealthTyped, RowsTyped, AskedTyped,
              WatchTyped, SetsTyped, LeftTyped
<1>2. ASSUME Typed, Next PROVE Typed'
  BY <1>2, VisitsTyped, BeginningsTyped, WorldTyped DEF Next, Beginnings, World
<1>. QED BY <1>1, <1>2

-----------------------------------------------------------------------------
(* The inductive invariant                                                 *)

\* What is absent, or about to be hidden because it was, is in lapse.
AbsentInv == \A p \in Path :
    disk[p] = 0 \/ p \in run.condemned \/ p \in gone \/ outbound[p] = "remove" => p \in lapse

PhaseInv ==
    /\ run.phase # "idle" => run.kind # "none"
    /\ run.phase \in {"mark", "finish"} => Drained
    /\ run.phase = "mark" => run.kind # "paths"
    /\ run.deferred # {} => Defers

\* A file of the snapshot that was never absent is still to be found, examined
\* or written, or has been seen.
Skips(p) == run.kind = "nested" /\ p \in Direct
ToExamine(p) == RootOf[p] \in run.todo \/ p \in run.entries
Pending(p) == \E v \in 1 .. MaxVersion : <<p, v>> \in run.writes
SeenInv == \A p \in run.before \ lapse :
    /\ Walks /\ ~Skips(p) /\ RootOf[p] \notin run.failed => ToExamine(p) \/ Pending(p) \/ p \in run.seen
    /\ run.kind = "reconcile" => p \in run.todo \/ p \in run.seen

OwedInv == owed \subseteq lost \cup run.deferred

\* What a run writes of a steady file is its version on disk; a run without
\* error has still to write it, or its row is right.
Good(p) == row[p] = "live" /\ ver[p] = disk[p]
SteadyInv == \A p \in run.steady :
    /\ disk[p] # 0 /\ RootOf[p] \in up
    /\ \A v \in 1 .. MaxVersion : <<p, v>> \in run.writes => v = disk[p]
FoundInv == ~run.errs => \A p \in run.steady :
    /\ Walks /\ ~Skips(p) => ToExamine(p) \/ Pending(p) \/ (p \in run.seen /\ Good(p))
    /\ run.kind = "paths" /\ p \in run.seen => Good(p)

HiddenInv == AbsentInv /\ PhaseInv /\ SeenInv /\ HiddenWasAbsent
CleanInv == SteadyInv /\ FoundInv
IInv == Typed /\ HiddenInv /\ OwedInv /\ CleanInv

NoRunFields == /\ NoRun.kind = "none" /\ NoRun.phase = "idle" /\ NoRun.todo = {} /\ NoRun.entries = {}
               /\ NoRun.condemned = {} /\ NoRun.writes = {} /\ NoRun.seen = {} /\ NoRun.before = {}
               /\ NoRun.deferred = {} /\ NoRun.steady = {}

LEMMA NoRunHas == NoRunFields
BY DEF NoRunFields, NoRun

\* Without a run, only the parts about the rest of the state are left.
LEMMA NoRunKeeps ==
    ASSUME run' = NoRun
    PROVE  PhaseInv' /\ SeenInv' /\ CleanInv'
BY NoRunHas DEF NoRunFields, PhaseInv, SeenInv, CleanInv, SteadyInv, FoundInv, Walks, Defers

LEMMA InitInv == Init => IInv
<1>1. ASSUME Init PROVE HiddenInv /\ OwedInv /\ CleanInv
  BY <1>1, NoRunHas DEF Init, NoRunFields, HiddenInv, AbsentInv, PhaseInv, SeenInv, HiddenWasAbsent, OwedInv, CleanInv,
                        SteadyInv, FoundInv, Walks, Defers, Present
<1>. QED BY <1>1, InitTyped DEF IInv

-----------------------------------------------------------------------------
(* Steps of the run                                                        *)

LEMMA VisitsFrame ==
    ASSUME Visits
    PROVE  UNCHANGED <<disk, up, gone, outbound>> /\ lapse \subseteq lapse'
BY ZenonT(40) DEF Visits, WalkRoot, SubmitPath, DeleteAbsent, Examine, FailsOn, Write, LookUp, DrainRun, MarkMissing, FinishRun,
       StopRun, source, watch

LEMMA VisitsAbsent == ASSUME Typed, AbsentInv, Visits PROVE AbsentInv'
<1>1. \A p \in run'.condemned : p \in run.condemned \/ disk[p] = 0
  <2>1. CASE FinishRun \/ StopRun BY <2>1, NoRunHas DEF FinishRun, StopRun, NoRunFields
  <2>2. CASE \E r \in Root : WalkRoot(r) BY <2>2, WalkEffect DEF WalkedRoot
  <2>3. CASE \E p \in Path : SubmitPath(p) BY <2>3, SubmitEffect DEF SubmittedPath
  <2>4. CASE \E p \in Path : DeleteAbsent(p) BY <2>4, DeleteEffect DEF DeletedAbsent
  <2>5. CASE \E p \in Path : Examine(p) BY <2>5, ExamineEffect DEF Examined
  <2>6. CASE \E p \in Path : LookUp(p) BY <2>6, LookUpEffect, NoRunHas DEF LookedUp, NoRunFields
  <2>7. CASE \E p \in Path, v \in 1 .. MaxVersion : Write(p, v) BY <2>7, WriteEffect DEF Wrote
  <2>8. CASE DrainRun \/ MarkMissing BY <2>8, PhaseEffect DEF PhaseMoved
  <2>. QED BY <2>1, <2>2, <2>3, <2>4, <2>5, <2>6, <2>7, <2>8 DEF Visits
<1>. QED BY <1>1, VisitsFrame DEF AbsentInv

LEMMA VisitsPhase == ASSUME Typed, PhaseInv, Visits PROVE PhaseInv'
<1>0. run.phase \in {"idle", "walk", "mark", "finish"} /\ run.kind \in Kinds BY DEF Typed, RunTyped, RunType
<1>1. CASE FinishRun \/ StopRun BY <1>1, NoRunKeeps DEF FinishRun, StopRun
<1>2. CASE \E r \in Root : WalkRoot(r)
  BY <1>2, WalkEffect DEF WalkedRoot, Frame, WalkRoot, PhaseInv, Defers
<1>3. CASE \E p \in Path : SubmitPath(p)
  BY <1>3, SubmitEffect DEF SubmittedPath, Frame, SubmitPath, PhaseInv, Defers
<1>4. CASE \E p \in Path : DeleteAbsent(p)
  BY <1>4, DeleteEffect DEF DeletedAbsent, Frame, DeleteAbsent, PhaseInv, Drained, Defers
<1>5. CASE \E p \in Path : Examine(p)
  BY <1>5, ExamineEffect DEF Examined, Frame, Examine, PhaseInv, Drained, Defers
<1>6. CASE \E p \in Path : LookUp(p)
  BY <1>6, LookUpEffect, NoRunKeeps DEF LookedUp, Frame, LookUp, PhaseInv, Defers
<1>7. CASE \E p \in Path, v \in 1 .. MaxVersion : Write(p, v)
  <2>1. PICK p \in Path, v \in 1 .. MaxVersion : Write(p, v) BY <1>7
  <2>2. ~Drained /\ run.phase \notin {"mark", "finish"} BY <2>1 DEF Write, PhaseInv, Drained
  <2>3. run'.kind = run.kind /\ run'.phase = run.phase /\ (run'.deferred # {} => run.deferred # {} \/ Defers)
    BY <2>1, WriteEffect DEF Wrote
  <2>. QED BY <2>2, <2>3 DEF PhaseInv, Defers
<1>8. CASE DrainRun
  BY <1>0, <1>8, PhaseEffect DEF PhaseMoved, Frame, DrainRun, PhaseInv, Drained, Defers
<1>9. CASE MarkMissing
  BY <1>0, <1>9, PhaseEffect DEF PhaseMoved, Frame, MarkMissing, PhaseInv, Drained, Defers
<1>. QED BY <1>1, <1>2, <1>3, <1>4, <1>5, <1>6, <1>7, <1>8, <1>9 DEF Visits

LEMMA VisitsSeen == ASSUME Typed, AbsentInv, SeenInv, Visits PROVE SeenInv'
<1>0. run.before \subseteq Path /\ lapse \subseteq lapse' BY VisitsFrame DEF Typed, RunTyped, RunType
<1>1. CASE FinishRun \/ StopRun BY <1>1, NoRunKeeps DEF FinishRun, StopRun
<1>2. CASE \E r \in Root : WalkRoot(r)
  <2>1. PICK r \in Root : WalkRoot(r) BY <1>2
  <2>2. run'.kind = run.kind /\ Walks /\ WalkedRoot(r) BY <2>1, WalkEffect DEF WalkedRoot, Frame, WalkRoot
  <2>3. SUFFICES ASSUME NEW p \in run.before \ lapse, ~Skips(p), RootOf[p] \notin run'.failed
                 PROVE  (ToExamine(p) \/ Pending(p))' \/ p \in run'.seen
    BY <1>0, <2>2 DEF WalkedRoot, Frame, SeenInv, Walks, Skips
  <2>4. RootOf[p] \notin run.failed BY <2>2, <2>3 DEF WalkedRoot
  <2>5. ToExamine(p) \/ Pending(p) \/ p \in run.seen BY <2>2, <2>3, <2>4 DEF SeenInv
  <2>6. CASE RootOf[p] = r
    <3>1. disk[p] # 0 BY <1>0, <2>3 DEF AbsentInv
    <3>. QED BY <1>0, <2>2, <2>3, <2>6, <3>1 DEF WalkedRoot, Skips, ToExamine
  <2>7. CASE RootOf[p] # r BY <2>2, <2>5, <2>7 DEF WalkedRoot, ToExamine, Pending
  <2>. QED BY <2>6, <2>7
<1>3. CASE \E p \in Path : SubmitPath(p)
  BY <1>3, SubmitEffect DEF SubmittedPath, Frame, SubmitPath, SeenInv, Walks
<1>4. CASE \E p \in Path : DeleteAbsent(p)
  BY <1>0, <1>4, DeleteEffect DEF DeletedAbsent, Frame, SeenInv, Walks, Skips, ToExamine, Pending
<1>5. CASE \E p \in Path : Examine(p)
  <2>1. PICK p \in Path : Examine(p) BY <1>5
  <2>. QED BY <1>0, <2>1, ExamineEffect DEF Examined, Frame, SeenInv, AbsentInv, Walks, Skips, ToExamine, Pending
<1>6. CASE \E p \in Path : LookUp(p)
  <2>1. PICK p \in Path : LookUp(p) BY <1>6
  <2>2. CASE run' = NoRun BY <2>2, NoRunKeeps
  <2>3. CASE LookedUp(p)
    BY <1>0, <2>1, <2>3 DEF LookedUp, Frame, LookUp, SeenInv, AbsentInv, Walks
  <2>. QED BY <2>1, <2>2, <2>3, LookUpEffect
<1>7. CASE \E p \in Path, v \in 1 .. MaxVersion : Write(p, v)
  <2>1. PICK p \in Path, v \in 1 .. MaxVersion : Write(p, v) BY <1>7
  <2>. QED BY <1>0, <2>1, WriteEffect DEF Wrote, SeenInv, Walks, Skips, ToExamine, Pending
<1>8. CASE DrainRun \/ MarkMissing
  BY <1>0, <1>8, PhaseEffect DEF PhaseMoved, Frame, SeenInv, Walks, Skips, ToExamine, Pending
<1>. QED BY <1>1, <1>2, <1>3, <1>4, <1>5, <1>6, <1>7, <1>8 DEF Visits

\* When the run has drained, what it has not seen was absent once.
LEMMA MissingLapsed == ASSUME Typed, PhaseInv, SeenInv, run.phase = "mark" PROVE MissingPaths \subseteq lapse
<1>1. run.kind \in Kinds \ {"none", "paths"} /\ Drained BY DEF Typed, RunTyped, RunType, PhaseInv
<1>. QED BY <1>1 DEF MissingPaths, SeenInv, Kinds, Walks, Skips, ToExamine, Pending, Drained

LEMMA VisitsHidden == ASSUME Typed, HiddenInv, Visits PROVE HiddenWasAbsent'
<1>0. lapse \subseteq lapse' /\ row \in [Path -> {"none", "live", "missing", "deleted"}]
  BY VisitsFrame DEF Typed, RowsTyped
<1>1. CASE UNCHANGED row BY <1>0, <1>1 DEF HiddenInv, HiddenWasAbsent
<1>2. CASE MarkMissing
  <2>1. CASE row' = Hidden(MissingPaths, "missing")
    <3>1. MissingPaths \subseteq lapse BY <1>2, MissingLapsed DEF HiddenInv, MarkMissing
    <3>. QED BY <1>0, <2>1, <3>1 DEF Hidden, HiddenInv, HiddenWasAbsent
  <2>. QED BY <1>1, <1>2, <2>1 DEF MarkMissing
<1>3. CASE \E p \in Path : DeleteAbsent(p)
  BY <1>0, <1>3 DEF DeleteAbsent, HiddenInv, HiddenWasAbsent, AbsentInv
<1>4. CASE \E p \in Path, v \in 1 .. MaxVersion : Write(p, v)
  BY <1>0, <1>4 DEF Write, rows, HiddenInv, HiddenWasAbsent
<1>. QED BY <1>1, <1>2, <1>3, <1>4
         DEF Visits, WalkRoot, SubmitPath, Examine, LookUp, DrainRun, FinishRun, StopRun, rows

LEMMA VisitsOwed == ASSUME Typed, PhaseInv, OwedInv, Visits PROVE OwedInv'
<1>1. CASE FinishRun \/ StopRun BY <1>1, NoRunHas DEF FinishRun, StopRun, NoRunFields, OwedInv
<1>2. CASE \E r \in Root : WalkRoot(r) BY <1>2, WalkEffect DEF WalkedRoot, Frame, WalkRoot, OwedInv
<1>3. CASE \E p \in Path : SubmitPath(p) BY <1>3, SubmitEffect DEF SubmittedPath, Frame, SubmitPath, OwedInv
<1>4. CASE \E p \in Path : DeleteAbsent(p) BY <1>4, DeleteEffect DEF DeletedAbsent, Frame, DeleteAbsent, OwedInv
<1>5. CASE \E p \in Path : Examine(p)
  <2>1. UNCHANGED lost /\ owed' \subseteq owed BY <1>5 DEF Examine
  <2>. QED BY <1>5, <2>1, ExamineEffect DEF Examined, Frame, OwedInv
<1>6. CASE \E p \in Path : LookUp(p)
  <2>1. UNCHANGED <<owed, lost>> /\ run.deferred = {} BY <1>6 DEF LookUp, PhaseInv, Defers
  <2>. QED BY <2>1 DEF OwedInv
<1>7. CASE \E p \in Path, v \in 1 .. MaxVersion : Write(p, v)
  <2>1. UNCHANGED lost BY <1>7 DEF Write
  <2>. QED BY <1>7, <2>1, WriteEffect DEF Wrote, OwedInv
<1>8. CASE DrainRun \/ MarkMissing BY <1>8, PhaseEffect DEF PhaseMoved, Frame, DrainRun, MarkMissing, OwedInv
<1>. QED BY <1>1, <1>2, <1>3, <1>4, <1>5, <1>6, <1>7, <1>8 DEF Visits

LEMMA VisitsSteady == ASSUME Typed, SteadyInv, Visits PROVE SteadyInv'
<1>0. UNCHANGED <<disk, up>> BY VisitsFrame
<1>1. CASE FinishRun \/ StopRun BY <1>1, NoRunKeeps DEF FinishRun, StopRun, CleanInv
<1>2. CASE \E r \in Root : WalkRoot(r) BY <1>0, <1>2, WalkEffect DEF WalkedRoot, SteadyInv
<1>3. CASE \E p \in Path : SubmitPath(p) BY <1>0, <1>3, SubmitEffect DEF SubmittedPath, SteadyInv
<1>4. CASE \E p \in Path : DeleteAbsent(p) BY <1>0, <1>4, DeleteEffect DEF DeletedAbsent, SteadyInv
<1>5. CASE \E p \in Path : Examine(p)
  <2>1. PICK p \in Path : Examine(p) BY <1>5
  <2>. QED BY <1>0, <2>1, ExamineEffect DEF Examined, SteadyInv
<1>6. CASE \E p \in Path : LookUp(p) BY <1>0, <1>6, LookUpEffect, NoRunKeeps DEF LookedUp, SteadyInv, CleanInv
<1>7. CASE \E p \in Path, v \in 1 .. MaxVersion : Write(p, v) BY <1>0, <1>7, WriteEffect DEF Wrote, SteadyInv
<1>8. CASE DrainRun \/ MarkMissing BY <1>0, <1>8, PhaseEffect DEF PhaseMoved, SteadyInv
<1>. QED BY <1>1, <1>2, <1>3, <1>4, <1>5, <1>6, <1>7, <1>8 DEF Visits

LEMMA VisitsFound == ASSUME Typed, PhaseInv, CleanInv, Visits PROVE FoundInv'
<1>0. /\ UNCHANGED <<disk, up>> /\ run.steady \subseteq Path
      /\ row \in [Path -> {"none", "live", "missing", "deleted"}] /\ ver \in [Path -> 0 .. MaxVersion]
  BY VisitsFrame DEF Typed, RunTyped, RunType, RowsTyped
<1>1. CASE FinishRun \/ StopRun BY <1>1, NoRunKeeps DEF FinishRun, StopRun, CleanInv
<1>2. CASE \E r \in Root : WalkRoot(r)
  <2>1. PICK r \in Root : WalkRoot(r) BY <1>2
  <2>. QED BY <1>0, <2>1, WalkEffect
    DEF WalkedRoot, Frame, WalkRoot, rows, CleanInv, SteadyInv, FoundInv, Walks, Skips, ToExamine, Pending, Good
<1>3. CASE \E p \in Path : SubmitPath(p)
  <2>1. PICK p \in Path : SubmitPath(p) BY <1>3
  <2>2. run.kind = "paths" /\ UNCHANGED <<row, ver>> /\ SubmittedPath(p) BY <2>1, SubmitEffect DEF SubmitPath, rows
  <2>3. /\ run'.kind = "paths" /\ run'.seen = run.seen /\ run'.steady = run.steady /\ (run.errs => run'.errs)
    BY <2>2 DEF SubmittedPath, Frame
  <2>4. \A q : Good(q)' = Good(q) BY <1>0, <2>2 DEF Good
  <2>. QED BY <2>2, <2>3, <2>4 DEF CleanInv, FoundInv, Walks
<1>4. CASE \E p \in Path : DeleteAbsent(p)
  <2>1. PICK p \in Path : DeleteAbsent(p) BY <1>4
  <2>2. UNCHANGED ver /\ \A q \in Path \ {p} : row'[q] = row[q] BY <1>0, <2>1 DEF DeleteAbsent
  <2>. QED BY <1>0, <2>1, <2>2, DeleteEffect
    DEF DeletedAbsent, Frame, CleanInv, FoundInv, Walks, Skips, ToExamine, Pending, Good
<1>5. CASE \E p \in Path : Examine(p)
  <2>1. PICK p \in Path : Examine(p) BY <1>5
  <2>2. UNCHANGED <<row, ver>> BY <2>1 DEF Examine, rows
  <2>. QED BY <1>0, <2>1, <2>2, ExamineEffect
    DEF Examined, Frame, CleanInv, SteadyInv, FoundInv, Walks, Skips, ToExamine, Pending, Good
<1>6. CASE \E p \in Path : LookUp(p)
  <2>1. PICK p \in Path : LookUp(p) BY <1>6
  <2>2. CASE LookedUp(p) BY <2>1, <2>2 DEF LookedUp, Frame, LookUp, FoundInv, Walks
  <2>. QED BY <2>1, <2>2, LookUpEffect, NoRunKeeps DEF CleanInv
<1>7. CASE \E p \in Path, v \in 1 .. MaxVersion : Write(p, v)
  <2>1. PICK p \in Path, v \in 1 .. MaxVersion : Write(p, v) BY <1>7
  <2>2. CASE run'.errs BY <2>2 DEF FoundInv
  <2>3. CASE ~run'.errs
    <3>1. /\ row' = [row EXCEPT ![p] = "live"] /\ ver' = [ver EXCEPT ![p] = v]
          /\ run'.steady = run.steady /\ run'.seen = run.seen \cup {p}
      BY <2>1, <2>3, WriteEffect DEF Wrote
    <3>2. <<p, v>> \in run.writes BY <2>1 DEF Write
    <3>3. p \in run.steady => Good(p)' BY <1>0, <3>1, <3>2 DEF CleanInv, SteadyInv, Good
    <3>4. \A q \in Path \ {p} : row'[q] = row[q] /\ ver'[q] = ver[q] BY <1>0, <3>1
    <3>5. /\ run'.kind = run.kind /\ run'.todo = run.todo /\ run'.entries = run.entries
          /\ run'.writes = run.writes \ {<<p, v>>} /\ ~run.errs
      BY <2>1, <2>3, WriteEffect DEF Wrote
    <3>6. \A q \in run.steady \ {p} : Good(q)' = Good(q) /\ ToExamine(q)' = ToExamine(q) /\ Pending(q)' = Pending(q)
      BY <1>0, <3>4, <3>5 DEF Good, ToExamine, Pending
    <3>. QED BY <1>0, <3>1, <3>3, <3>5, <3>6 DEF CleanInv, FoundInv, Walks, Skips
  <2>. QED BY <2>2, <2>3
<1>8. CASE DrainRun
  BY <1>0, <1>8, PhaseEffect
  DEF PhaseMoved, Frame, DrainRun, rows, CleanInv, FoundInv, Walks, Skips, ToExamine, Pending, Good
<1>9. CASE MarkMissing
  <2>1. UNCHANGED ver /\ row' \in {row, Hidden(MissingPaths, "missing")} BY <1>9 DEF MarkMissing
  <2>2. ~run.errs => \A p \in run.steady \cap MissingPaths : ~Walks
    BY <1>9 DEF MarkMissing, MissingPaths, PhaseInv, Drained, CleanInv, FoundInv, Skips, ToExamine, Pending
  <2>3. run.kind # "paths" BY <1>9 DEF MarkMissing, PhaseInv
  <2>4. \A p \in Path \ MissingPaths : row'[p] = row[p] BY <1>0, <2>1 DEF Hidden
  <2>. QED BY <1>0, <1>9, <2>1, <2>2, <2>3, <2>4, PhaseEffect
    DEF PhaseMoved, Frame, CleanInv, FoundInv, Walks, Skips, ToExamine, Pending, Good
<1>. QED BY <1>1, <1>2, <1>3, <1>4, <1>5, <1>6, <1>7, <1>8, <1>9 DEF Visits

LEMMA VisitsInv == ASSUME IInv, Visits PROVE IInv'
BY VisitsTyped, VisitsAbsent, VisitsPhase, VisitsSeen, VisitsHidden, VisitsOwed, VisitsSteady, VisitsFound
   DEF IInv, HiddenInv, CleanInv

-----------------------------------------------------------------------------
(* The beginning of a run                                                  *)

LEMMA BeginningsFrame ==
    ASSUME Beginnings
    PROVE  UNCHANGED <<disk, up, gone, outbound, row, ver, lapse>> /\ run = NoRun
BY DEF Beginnings, BeginWholeRun, BeginAskedRun, BeginVisit, CountRun, RebuildRun, Begin, Running, source, rows, watch

LEMMA BeginningsOwed ==
    ASSUME OwedInv, Beginnings
    PROVE  owed' \subseteq lost'
<1>1. owed \subseteq lost BY BeginningsFrame, NoRunHas DEF NoRunFields, OwedInv
<1>. QED BY <1>1 DEF Beginnings, BeginWholeRun, BeginAskedRun, BeginVisit, CountRun, RebuildRun

LEMMA BegunKeeps ==
    ASSUME NEW kind \in {"media", "metadata", "nested", "paths", "reconcile"}, NEW R \in SUBSET Root, NEW todo,
           kind = "reconcile" => todo = Live \cap Files(R),
           kind \in {"media", "metadata", "nested"} => todo = R,
           Begun(kind, R, todo), UNCHANGED <<disk, up>>
    PROVE  PhaseInv' /\ SeenInv' /\ CleanInv'
<1>1. PhaseInv' BY DEF Begun, PhaseInv
<1>2. SeenInv' BY DEF Begun, SeenInv, Walks, ToExamine, Files
<1>3. SteadyInv' BY DEF Begun, SteadyInv, Readable, Present, Files
<1>4. FoundInv' BY DEF Begun, FoundInv, Walks, ToExamine, Files
<1>. QED BY <1>1, <1>2, <1>3, <1>4 DEF CleanInv

LEMMA BeginningsInv == ASSUME IInv, Beginnings PROVE IInv'
<1>0. Typed /\ UNCHANGED <<disk, up, gone, outbound, row, ver, lapse>> BY BeginningsFrame DEF IInv
<1>1. PhaseInv' /\ SeenInv' /\ CleanInv' /\ run'.condemned = {}
  <2>1. CASE run' = NoRun BY <2>1, NoRunKeeps, NoRunHas DEF NoRunFields
  <2>2. CASE CountRun \/ RebuildRun BY <2>1, <2>2 DEF CountRun, RebuildRun, Begin
  <2>3. ASSUME NEW kind \in {"media", "metadata", "nested"}, NEW R \in SUBSET Root, BeginVisit(kind, R, R)
        PROVE  PhaseInv' /\ SeenInv' /\ CleanInv' /\ run'.condemned = {}
    <3>1. CASE Begun(kind, R, R) BY <1>0, <2>3, <3>1, BegunKeeps DEF Begun
    <3>. QED BY <1>0, <2>1, <2>3, <3>1, VisitEffect
  <2>4. ASSUME NEW R \in SUBSET Root, BeginVisit("reconcile", R, Live \cap Files(R))
        PROVE  PhaseInv' /\ SeenInv' /\ CleanInv' /\ run'.condemned = {}
    <3>1. CASE Begun("reconcile", R, Live \cap Files(R)) BY <1>0, <2>4, <3>1, BegunKeeps DEF Begun
    <3>2. Live \cap Files(R) \in SUBSET (Root \cup Path) BY DEF Live
    <3>. QED BY <1>0, <2>1, <2>4, <3>1, <3>2, VisitEffect
  <2>5. ASSUME NEW R \in SUBSET Root, NEW P \in SUBSET Path, BeginVisit("paths", R, P)
        PROVE  PhaseInv' /\ SeenInv' /\ CleanInv' /\ run'.condemned = {}
    <3>1. CASE Begun("paths", R, P) BY <1>0, <2>5, <3>1, BegunKeeps DEF Begun
    <3>. QED BY <1>0, <2>1, <2>5, <3>1, VisitEffect
  <2>. QED BY <1>0, <2>2, <2>3, <2>4, <2>5, BeginningShapes
<1>2. AbsentInv' /\ HiddenWasAbsent' BY <1>0, <1>1 DEF IInv, HiddenInv, AbsentInv, HiddenWasAbsent
<1>3. OwedInv' BY BeginningsOwed DEF IInv, OwedInv
<1>. QED BY <1>1, <1>2, <1>3, BeginningsTyped DEF IInv, HiddenInv

-----------------------------------------------------------------------------
(* Steps of the world                                                      *)

\* The run keeps its place; files may become unsteady.
WorldRan ==
    /\ Frame /\ Place /\ run'.failed = run.failed /\ run'.seen = run.seen /\ run'.errs = run.errs
    /\ run'.steady \subseteq run.steady

LEMMA WorldRuns == ASSUME Typed, World PROVE WorldRan
BY WorldRun, UnsteadyEffect DEF WorldRan, SteadyShrinks, Frame, Place

LEMMA WorldLapse == ASSUME World PROVE lapse \subseteq lapse'
BY DEF World, ReadFails, Expire, Outage, Returns, DiskChanges, LocalRemoved, Promote, Purge, Supervise, Flush,
       WatcherRestarts

LEMMA WorldAbsent == ASSUME Typed, AbsentInv, World PROVE AbsentInv'
<1>0. run'.condemned = run.condemned BY WorldRuns DEF WorldRan, Place
<1>1. disk \in [Path -> 0 .. MaxVersion] /\ outbound \in [Path -> {"none", "upsert", "remove"}]
  BY DEF Typed, SourceTyped, WatchTyped
<1>2. CASE \E p \in Path : DiskChanges(p)
  <2>1. PICK p \in Path : DiskChanges(p) BY <1>2
  <2>2. \A q \in Path \ {p} : disk'[q] = disk[q] BY <1>1, <2>1 DEF DiskChanges
  <2>3. gone' \subseteq gone \cup {p} /\ (disk'[p] # 0 => gone' = gone) BY <2>1 DEF DiskChanges, Notice
  <2>4. outbound' = outbound \/ (disk'[p] = 0 /\ outbound' = [outbound EXCEPT ![p] = "remove"])
    BY <2>1 DEF DiskChanges, Notice
  <2>5. lapse' = IF disk'[p] = 0 THEN lapse \cup {p} ELSE lapse BY <2>1 DEF DiskChanges
  <2>. QED BY <1>0, <1>1, <2>2, <2>3, <2>4, <2>5 DEF AbsentInv
<1>3. CASE \E p \in Path : Promote(p)
  BY <1>0, <1>1, <1>3 DEF Promote, source, AbsentInv
<1>4. CASE Flush BY <1>0, <1>4 DEF Flush, source, AbsentInv
<1>5. CASE WatcherRestarts BY <1>0, <1>5 DEF WatcherRestarts, source, AbsentInv
<1>6. CASE \E p \in Path : LocalRemoved(p) BY <1>0, <1>6 DEF LocalRemoved, source, AbsentInv
<1>7. CASE UNCHANGED <<disk, gone, outbound>> /\ lapse' = lapse BY <1>0, <1>7 DEF AbsentInv
<1>. QED BY <1>2, <1>3, <1>4, <1>5, <1>6, <1>7
         DEF World, ReadFails, Expire, Outage, Returns, Purge, Supervise, source, watch

LEMMA WorldPlace == ASSUME Typed, PhaseInv, SeenInv, World PROVE PhaseInv' /\ SeenInv'
<1>1. WorldRan /\ lapse \subseteq lapse' BY WorldRuns, WorldLapse
<1>2. PhaseInv' BY <1>1 DEF WorldRan, Frame, Place, PhaseInv, Drained, Defers
<1>3. SeenInv' BY <1>1 DEF WorldRan, Frame, Place, SeenInv, Walks, Skips, ToExamine, Pending
<1>. QED BY <1>2, <1>3

LEMMA WorldHidden == ASSUME Typed, AbsentInv, HiddenWasAbsent, World PROVE HiddenWasAbsent'
<1>0. lapse \subseteq lapse' /\ row \in [Path -> {"none", "live", "missing", "deleted"}]
  BY WorldLapse DEF Typed, RowsTyped
<1>1. CASE UNCHANGED row BY <1>0, <1>1 DEF HiddenWasAbsent
<1>2. CASE \E p \in Path : LocalRemoved(p)
  <2>1. PICK p \in Path : LocalRemoved(p) BY <1>2
  <2>2. p \in gone /\ row' \in {row, Hidden({p}, "deleted")} BY <2>1 DEF LocalRemoved
  <2>. QED BY <1>0, <2>2 DEF Hidden, HiddenWasAbsent, AbsentInv
<1>3. CASE Flush BY <1>0, <1>3 DEF Flush, Hidden, HiddenWasAbsent, AbsentInv
<1>4. CASE \E p \in Path : Purge(p) BY <1>0, <1>4 DEF Purge, HiddenWasAbsent
<1>. QED BY <1>1, <1>2, <1>3, <1>4
         DEF World, ReadFails, Expire, Outage, Returns, DiskChanges, Promote, Supervise, WatcherRestarts, rows

LEMMA WorldOwed == ASSUME Typed, OwedInv, World PROVE OwedInv'
<1>1. run'.deferred = run.deferred BY WorldRuns DEF WorldRan, Frame
<1>2. (owed' \subseteq owed /\ lost' = lost) \/ owed' = {}
  BY DEF World, ReadFails, Expire, Outage, Returns, DiskChanges, LocalRemoved, Promote, Purge, Supervise, Flush,
         WatcherRestarts
<1>. QED BY <1>1, <1>2 DEF OwedInv

\* A step that takes a file away, changes it or its row, or makes it
\* unreadable also makes it unsteady.
LEMMA WorldFiles ==
    ASSUME Typed, SteadyInv, World, NEW p \in run'.steady
    PROVE  /\ p \in run.steady /\ disk'[p] = disk[p] /\ row'[p] = row[p] /\ ver'[p] = ver[p]
           /\ RootOf[p] \in up'
<1>1. p \in run.steady /\ p \in Path BY WorldRuns DEF WorldRan, Typed, RunTyped, RunType
<1>2. RootOf[p] \in up /\ disk \in [Path -> 0 .. MaxVersion] BY <1>1 DEF SteadyInv, Typed, SourceTyped
<1>3. row \in [Path -> {"none", "live", "missing", "deleted"}] /\ ver \in [Path -> 0 .. MaxVersion]
  BY DEF Typed, RowsTyped
<1>4. ASSUME NEW P, Unsteady(P) PROVE p \notin P
  BY <1>4, UnsteadyEffect DEF SteadyShrinks
<1>5. CASE \E q \in Path : DiskChanges(q)
  <2>1. PICK q \in Path : DiskChanges(q) BY <1>5
  <2>2. p # q BY <1>4, <2>1 DEF DiskChanges
  <2>. QED BY <1>1, <1>2, <2>1, <2>2 DEF DiskChanges, rows
<1>6. CASE \E r \in Root : Outage(r)
  <2>1. PICK r \in Root : Outage(r) BY <1>6
  <2>2. p \notin Files({r}) BY <1>4, <2>1 DEF Outage
  <2>. QED BY <1>1, <1>2, <2>1, <2>2 DEF Outage, Files, rows
<1>7. CASE \E q \in Path : LocalRemoved(q)
  <2>1. PICK q \in Path : LocalRemoved(q) BY <1>7
  <2>2. p # q /\ row' \in {row, Hidden({q}, "deleted")} BY <1>4, <2>1 DEF LocalRemoved
  <2>. QED BY <1>1, <1>2, <2>1, <2>2 DEF LocalRemoved, Hidden, source
<1>8. CASE \E q \in Path : Purge(q)
  <2>1. PICK q \in Path : Purge(q) BY <1>8
  <2>2. p # q BY <1>4, <2>1 DEF Purge
  <2>. QED BY <1>1, <1>2, <1>3, <2>1, <2>2 DEF Purge, source
<1>9. CASE Flush
  <2>. DEFINE removed == {q \in Path : outbound[q] = "remove"}
  <2>1. Unsteady(removed) /\ row' = Hidden(removed, "missing") /\ UNCHANGED <<source, ver>> BY <1>9 DEF Flush
  <2>2. p \notin removed BY <1>4, <2>1
  <2>. HIDE DEF removed
  <2>. QED BY <1>1, <1>2, <2>1, <2>2 DEF Hidden, source
<1>10. CASE UNCHANGED <<disk, rows>> /\ up \subseteq up' BY <1>1, <1>2, <1>10 DEF rows
<1>. QED BY <1>5, <1>6, <1>7, <1>8, <1>9, <1>10
         DEF World, ReadFails, Expire, Returns, Promote, Supervise, WatcherRestarts, source

LEMMA WorldClean == ASSUME Typed, CleanInv, World PROVE CleanInv'
<1>1. WorldRan BY WorldRuns
<1>2. \A p \in run'.steady : /\ p \in run.steady /\ disk'[p] = disk[p] /\ row'[p] = row[p] /\ ver'[p] = ver[p]
                             /\ RootOf[p] \in up'
  BY WorldFiles DEF CleanInv
<1>3. SteadyInv' BY <1>1, <1>2 DEF WorldRan, Place, CleanInv, SteadyInv
<1>4. \A p \in run'.steady : Good(p) => Good(p)' BY <1>2 DEF Good
<1>5. FoundInv'
  BY <1>1, <1>2, <1>4 DEF WorldRan, Frame, Place, CleanInv, FoundInv, Walks, Skips, ToExamine, Pending
<1>. QED BY <1>3, <1>5 DEF CleanInv

LEMMA WorldInv == ASSUME IInv, World PROVE IInv'
BY WorldTyped, WorldAbsent, WorldPlace, WorldHidden, WorldOwed, WorldClean DEF IInv, HiddenInv

-----------------------------------------------------------------------------
(* The theorems                                                            *)

LEMMA NextInv == IInv /\ [Next]_vars => IInv'
<1>1. ASSUME IInv, UNCHANGED vars PROVE IInv'
  <2>1. Typed' BY <1>1, NextTyped DEF IInv
  <2>2. UNCHANGED <<disk, up, row, ver, run, owed, gone, outbound, lapse, lost>>
    BY <1>1 DEF vars, source, rows, watch
  <2>3. HiddenInv' /\ OwedInv'
    BY <1>1, <2>2 DEF IInv, HiddenInv, AbsentInv, PhaseInv, SeenInv, HiddenWasAbsent, OwedInv, Walks, Defers, Drained,
                      Skips, ToExamine, Pending
  <2>4. CleanInv'
    BY <1>1, <2>2 DEF IInv, CleanInv, SteadyInv, FoundInv, Walks, Skips, ToExamine, Pending, Good
  <2>. QED BY <2>1, <2>3, <2>4 DEF IInv
<1>2. ASSUME IInv, Next PROVE IInv'
  BY <1>2, VisitsInv, BeginningsInv, WorldInv DEF Next, Beginnings, World
<1>. QED BY <1>1, <1>2

LEMMA FinishFinds ==
    ASSUME IInv, Finishes, ~run.errs
    PROVE  Finds
<1>1. run.kind \in {"media", "metadata", "nested", "paths"} /\ Drained
  BY DEF IInv, HiddenInv, PhaseInv, Finishes, Typed, RunTyped, RunType, Kinds
<1>2. ASSUME NEW p \in Expected PROVE row[p] = "live" /\ ver[p] = disk[p]
  BY <1>1, <1>2 DEF Expected, IInv, CleanInv, FoundInv, Walks, Skips, ToExamine, Pending, Drained, Good
<1>. QED BY <1>2 DEF Finds

\* A run's record, the rows, the watchers' sets and the health marks keep their
\* types.
THEOREM TypeCorrect == Spec => []TypeOK
BY TypedIsTypeOK, InitTyped, NextTyped, PTL DEF Spec

\* A hidden row's file was absent once, or its own read or write failed: what an
\* outage, an event or another file's error does never hides a row
\* (scanner.go 677-867, nas_watcher.go 180-196).
THEOREM HiddenRowsWereAbsent == Spec => []HiddenWasAbsent
<1>1. IInv => HiddenWasAbsent BY DEF IInv, HiddenInv
<1>. QED BY <1>1, InitInv, NextInv, PTL DEF Spec

\* Between two runs the only work not enqueued is what a stopped run or a failed
\* rebuild dropped (scanner.go 1948-1973, 855-863).
THEOREM WorkIsEnqueued == Spec => []OnlyStopsDropWork
<1>1. IInv => OnlyStopsDropWork
  BY NoRunHas DEF NoRunFields, IInv, OwedInv, OnlyStopsDropWork, Running
<1>. QED BY <1>1, InitInv, NextInv, PTL DEF Spec

\* A run that ends without error leaves the right row for every file that could
\* be read, unchanged, while it was in progress (scanner.go 805-867).
THEOREM CleanRunsFind == Spec => CleanRunFindsAll
<1>1. IInv /\ [Next]_vars => [Finishes /\ ~run.errs => Finds]_vars
  BY FinishFinds
<1>. QED BY <1>1, InitInv, NextInv, PTL DEF Spec, CleanRunFindsAll
==============================================================================
