------------------------------ MODULE ScanPromise ------------------------------
(***************************************************************************)
(* What the scanner's command loop promises its callers, without lists or  *)
(* merging: there is one run at a time and none starts while the loop is   *)
(* closed by a pause; what a taken request asks for is covered by the      *)
(* present run or stays owed until a run that covers it starts; only a     *)
(* stop drops what is owed, and only a manual start takes its place.       *)
(***************************************************************************)
EXTENDS Naturals, Sequences

CONSTANT Unit     \* a task on a place of the library

VARIABLES
    inbox,     \* what callers have sent: [kind, units, auto]
    owed,      \* accepted units whose run has not started
    covering,  \* the units the present run was started for
    running,
    cancelled, \* the run was told to end early
    closed     \* starts are refused

vars == <<inbox, owed, covering, running, cancelled, closed>>

Init ==
    /\ inbox = <<>> /\ owed = {} /\ covering = {}
    /\ running = FALSE /\ cancelled = FALSE /\ closed = FALSE

Asked == Head(inbox)

Take(kind) == inbox # <<>> /\ Asked.kind = kind /\ inbox' = Tail(inbox)

\* Callers and the pause.
Post ==
    /\ inbox' # <<>>
    /\ inbox = SubSeq(inbox', 1, Len(inbox') - 1)
    /\ UNCHANGED <<owed, covering, running, cancelled, closed>>

Toggle == closed' = ~closed /\ UNCHANGED <<inbox, owed, covering, running, cancelled>>

\* Commands.
Refuse == Take("start") /\ closed /\ UNCHANGED <<owed, covering, running, cancelled, closed>>

Accept ==
    /\ Take("start") /\ ~closed
    /\ owed' \subseteq Unit /\ owed \subseteq owed'
    /\ Asked.units \subseteq owed' \cup covering
    /\ UNCHANGED <<covering, running, cancelled, closed>>

Replace ==
    /\ Take("start") /\ ~closed /\ ~Asked.auto
    /\ owed' = Asked.units
    /\ cancelled' = TRUE
    /\ UNCHANGED <<covering, running, closed>>

Drop ==
    /\ Take("stop")
    /\ owed' = {}
    /\ cancelled' \in {cancelled, TRUE}
    /\ UNCHANGED <<covering, running, closed>>

\* Runs.
Begin(due) ==
    /\ ~running /\ ~closed
    /\ owed' \cup covering' \subseteq Unit
    /\ due \subseteq owed' \cup covering'
    /\ running' = TRUE /\ cancelled' = FALSE
    /\ UNCHANGED closed

BeginAsked == Take("start") /\ Begin(owed \cup Asked.units)
BeginOwed == Begin(owed) /\ UNCHANGED inbox

End == running /\ running' = FALSE /\ UNCHANGED <<inbox, owed, covering, cancelled, closed>>

Settle ==
    /\ ~running
    /\ covering' = {} /\ cancelled' = FALSE
    /\ UNCHANGED <<inbox, owed, running, closed>>

Next ==
    \/ Post \/ Toggle
    \/ Refuse \/ Accept \/ Replace \/ Drop
    \/ BeginAsked \/ BeginOwed \/ End \/ Settle

Spec == Init /\ [][Next]_vars
=============================================================================
