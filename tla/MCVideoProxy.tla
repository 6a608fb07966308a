--------------------------- MODULE MCVideoProxy ---------------------------
(* Instances of VideoProxy for TLC. *)
EXTENDS VideoProxy, TLC
CONSTANTS start, v1, v2
mcSymmetry == Permutations(Keys) \cup Permutations(Viewers)
===========================================================================
