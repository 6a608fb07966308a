--------------------------- MODULE MCMediaCache ---------------------------
(* Instances of MediaCache for TLC. *)
EXTENDS MediaCache

mcDests    == Chunks \cup Originals \cup {Audio, Preview, Thumb}
mcKept     == {Thumb}
mcSize     == [d \in mcDests |-> 1]
mcWriters  == Readers \cup Viewers \cup {"audio", "thumb"}
mcSymmetry == Permutations(Readers) \cup Permutations(Viewers)

\* Three readers, or some of them with the other writers.
mcCasts == {Readers}
    \cup {two \cup {"audio", v} : two \in kSubset(2, Readers), v \in Viewers}
    \cup {{r, "thumb"} \cup more : r \in Readers, more \in {{"audio"}, Viewers}}
=============================================================================
