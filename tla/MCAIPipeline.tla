--------------------------- MODULE MCAIPipeline ---------------------------
(* Instances of AIPipeline for TLC. *)
EXTENDS AIPipeline, TLC

mcSymmetry == Permutations(Workers) \cup Permutations(Nodes)
=============================================================================
