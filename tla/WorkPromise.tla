------------------------------ MODULE WorkPromise ------------------------------
(***************************************************************************)
(* What the job manager promises about a piece of work, without lists,     *)
(* retries or priorities: it is taken at most once, one worker at a time   *)
(* does it, nobody does what was not taken, and what was cut short is      *)
(* asked for again.  A request is satisfied by work that is taken already. *)
(* Only a refused push and a crash lose work.                              *)
(***************************************************************************)
CONSTANTS Piece, Doer    \* pieces of work, and who does them

VARIABLES
    asked,  \* pieces somebody is about to ask for
    taken,  \* pieces that are accepted
    doing,  \* pairs of a piece and who does it
    short   \* the pairs whose attempt ended before its time

vars == <<asked, taken, doing, short>>

Init == asked = {} /\ taken = {} /\ doing = {} /\ short = {}

Resting(piece) == \A d \in Doer : <<piece, d>> \notin doing

Ask(piece) == asked' = asked \cup {piece} /\ UNCHANGED <<taken, doing, short>>

\* One of those who ask has asked; others may still be about to.
Asks(piece) == piece \in asked /\ asked' \in {asked, asked \ {piece}}

Take(piece) ==
    /\ Asks(piece)
    /\ piece \notin taken /\ taken' = taken \cup {piece}
    /\ UNCHANGED <<doing, short>>

Join(piece) ==
    /\ Asks(piece)
    /\ piece \in taken
    /\ UNCHANGED <<taken, doing, short>>

\* Redis refuses what was taken.
Drop(piece) ==
    /\ piece \in taken /\ Resting(piece)
    /\ taken' = taken \ {piece}
    /\ UNCHANGED <<asked, doing, short>>

Begin(piece, d) ==
    /\ piece \in taken /\ Resting(piece)
    /\ \A other \in Piece : <<other, d>> \notin doing
    /\ doing' = doing \cup {<<piece, d>>}
    /\ UNCHANGED <<asked, taken, short>>

CutShort(piece, d) ==
    /\ <<piece, d>> \in doing
    /\ short' = short \cup {<<piece, d>>}
    /\ UNCHANGED <<asked, taken, doing>>

End(piece, d) ==
    /\ <<piece, d>> \in doing
    /\ doing' = doing \ {<<piece, d>>} /\ short' = short \ {<<piece, d>>}
    /\ taken' = taken \ {piece}
    /\ asked' = IF <<piece, d>> \in short THEN asked \cup {piece} ELSE asked

Crash == asked' = {} /\ taken' = {} /\ doing' = {} /\ short' = {}

Next ==
    \/ \E piece \in Piece :
          \/ Ask(piece) \/ Take(piece) \/ Join(piece) \/ Drop(piece)
          \/ \E d \in Doer : Begin(piece, d) \/ CutShort(piece, d) \/ End(piece, d)
    \/ Crash

Spec == Init /\ [][Next]_vars
=============================================================================
