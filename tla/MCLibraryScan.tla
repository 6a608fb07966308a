---------------------------- MODULE MCLibraryScan ----------------------------
(* Instances of LibraryScan for TLC. *)
EXTENDS LibraryScan

CONSTANTS r1, below, direct

\* Two files under one root.
mcOneRoot == [p \in Path |-> r1]
===============================================================================
