------------------------- MODULE MCVideoSegments -------------------------
(* Instances of VideoSegments for TLC. *)
EXTENDS VideoSegments
=============================================================================
