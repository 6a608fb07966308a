---------------------------- MODULE MCThumbPipeline ----------------------------
(* Instances of ThumbPipeline for TLC. *)
EXTENDS ThumbPipeline, TLC

CONSTANTS w1, w2

mcSymmetry == Permutations({w1, w2})
===============================================================================
