-------------------------- MODULE MCGaplessHandoff --------------------------
(* GaplessHandoff for TLC. *)
EXTENDS GaplessHandoff, TLC

CONSTANTS t1, t2, t3

=============================================================================
