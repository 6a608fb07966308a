---------------------------- MODULE CachePolicy ----------------------------
(***************************************************************************)
(* The unified cache: files under one root, a count of pins per path, and  *)
(* the three ways files are reclaimed - room for a new output, a clear     *)
(* asked for by the user, and the sweep of abandoned outputs.  Each of     *)
(* them runs under the manager's mutex.  The files are kept in the order   *)
(* they were last used, the oldest first: the code's access times, from    *)
(* the registry or the file.  Who writes and reads the files is left to    *)
(* the modules that extend this one.                                       *)
(***************************************************************************)
EXTENDS Integers, Sequences, FiniteSets, SequencesExt, FiniteSetsExt, Functions

CONSTANTS Dests,     \* finished cache files
          Kept,      \* those of the kinds that are never reclaimed
          Writers,   \* goroutines that write files
          Size,      \* size of each file
          MaxBytes   \* maxBytes

ASSUME CacheAssumption ==
    /\ IsFiniteSet(Dests)
    /\ Kept \subseteq Dests
    /\ Size \in [Dests -> Nat \ {0}]
    /\ MaxBytes \in Nat
    /\ "" \notin Writers

\* A path is a finished file or the partial output next to it.
Final(d)   == <<d, "final">>
Partial(d) == <<d, "tmp">>
Paths      == Dests \X {"final", "tmp"}

VARIABLES
    disk,   \* what each path holds
    order,  \* the paths that exist, least recently used first
    pinned  \* state.pinned

cache == <<disk, order, pinned>>

\* by is the writer of a file that is not whole yet, fresh that a partial output
\* is too new to be abandoned.
Nothing == [by |-> "", whole |-> FALSE, fresh |-> FALSE]
File    == [by : Writers \cup {""}, whole : BOOLEAN, fresh : BOOLEAN]

Exists(p) == disk[p] # Nothing

\* An output is counted as empty until it is complete, the least it can be.
Bytes == [p \in Paths |-> IF disk[p].whole THEN Size[p[1]] ELSE 0]
Total == SumFunctionOnSet(Bytes, Paths)

CacheTypeOK ==
    /\ disk \in [Paths -> File]
    /\ order \in Seq(Paths) /\ IsInjective(order) /\ ToSet(order) = {p \in Paths : Exists(p)}
    /\ pinned \in [Paths -> 0 .. Cardinality(Writers)]

CacheInit ==
    /\ disk = [p \in Paths |-> Nothing]
    /\ order = <<>>
    /\ pinned = [p \in Paths |-> 0]

(***************************************************************************)
(* Pins: a count per path.                                                 *)
(***************************************************************************)
Pins(from, take, drop) ==
    [p \in Paths |-> from[p] + (IF p \in take THEN 1 ELSE 0) - (IF p \in drop THEN 1 ELSE 0)]
PathPinned(p) == pinned[p] > 0

(***************************************************************************)
(* Files.  A file that disappears or appears is a change of disk and order *)
(* together; Touch moves a path to the end, and leaves it where it is when *)
(* it was used in the last five minutes.                                   *)
(***************************************************************************)
Without(seq, gone) == SelectSeq(seq, LAMBDA p : p \notin gone)
Deleted(gone) ==
    /\ disk' = [p \in Paths |-> IF p \in gone THEN Nothing ELSE disk[p]]
    /\ order' = Without(order, gone)

\* The output of w, empty, whatever was there before.
Started(w) == [by |-> w, whole |-> FALSE, fresh |-> TRUE]
Created(p, w) ==
    /\ disk' = [disk EXCEPT ![p] = Started(w)]
    /\ order' = Append(Without(order, {p}), p)

\* os.Rename and Register, in the files after the output is complete.
Renamed(d, done) ==
    /\ disk' = [done EXCEPT ![Final(d)] = [done[Partial(d)] EXCEPT !.fresh = FALSE], ![Partial(d)] = Nothing]
    /\ order' = Append(Without(order, {Partial(d), Final(d)}), Final(d))

Touched(p) == order' \in {order, IF Exists(p) THEN Append(Without(order, {p}), p) ELSE order}

(***************************************************************************)
(* Candidates, in the order they are removed: partial outputs that nobody  *)
(* has written to for a while before finished files, and among those the   *)
(* least recently used first.  Pinned files, fresh partial outputs and     *)
(* finished files of the kept kinds are no candidates.                     *)
(***************************************************************************)
Candidate(p) ==
    /\ Exists(p) /\ ~PathPinned(p)
    /\ IF p[2] = "tmp" THEN ~disk[p].fresh ELSE p[1] \notin Kept
Candidates == {p \in Paths : Candidate(p)}

Place(p) == CHOOSE i \in 1 .. Len(order) : order[i] = p
RemovedBefore(q, p) == \/ q[2] = "tmp" /\ p[2] = "final"
                       \/ q[2] = p[2] /\ Place(q) < Place(p)

\* What EnsureCapacity has to release for reserve more bytes; short is what the
\* free space of the disk lacks for them.
Required(reserve, short) == Max({Total - Max({MaxBytes - reserve, 0}), short})

FreedBy(gone) == SumFunctionOnSet(Bytes, gone)

\* A candidate is removed unless those before it have released enough.
Evicted(reserve, short) ==
    {p \in Candidates :
        FreedBy({q \in Candidates : RemovedBefore(q, p)}) < Required(reserve, short)}

\* EnsureCapacity fails when the cache, or the disk, is still too full.
EnoughForNow(reserve, short) == Total - FreedBy(Evicted(reserve, short)) <= MaxBytes
EnoughWhenEvicted(reserve, short) ==
    /\ Total - FreedBy(Evicted(reserve, short)) + reserve <= MaxBytes
    /\ FreedBy(Evicted(reserve, short)) >= short

(***************************************************************************)
(* The reclaiming steps.                                                   *)
(***************************************************************************)
EnsureCapacity(reserve, short) == Deleted(Evicted(reserve, short)) /\ UNCHANGED pinned

\* A writer that finds room starts its output at once.
Reserved(gone, p, w, short) ==
    LET all == gone \cup Evicted(Size[p[1]], short)
    IN /\ disk' = [q \in Paths |-> IF q = p THEN Started(w) ELSE IF q \in all THEN Nothing ELSE disk[q]]
       /\ order' = Append(Without(order, all \cup {p}), p)

Clear == Deleted(Candidates) /\ UNCHANGED pinned

CleanupAbandoned ==
    /\ Deleted({p \in Paths : p[2] = "tmp" /\ Exists(p) /\ ~disk[p].fresh /\ ~PathPinned(p)})
    /\ UNCHANGED pinned

\* Nobody writes to a partial output for longer than the grace periods.
GoesStale(p) ==
    /\ p[2] = "tmp" /\ Exists(p) /\ disk[p].fresh
    /\ disk' = [disk EXCEPT ![p].fresh = FALSE]
    /\ UNCHANGED <<order, pinned>>
=============================================================================
